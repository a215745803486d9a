------------------------------ MODULE Licensing ------------------------------
(***************************************************************************)
(* The devices, installations, licenses and activations of one customer    *)
(* and one product: requests of the customer's clients, the operations of  *)
(* operators on licenses, and the erasure of the account.                  *)
(*                                                                         *)
(* A request is admitted on the customer's status as it was then, and its  *)
(* transaction may run much later.  Activation reads the installation      *)
(* without a lock, locks the license, and inserts; a lease takes no lock   *)
(* at all; erasure locks the customer's profile and then the licenses.     *)
(* Every audit row refers to the profile, so that whoever writes one waits *)
(* for an erasure.  A statement that may wait is a step; the statements    *)
(* after the last wait are one step with COMMIT, and what waits only once  *)
(* is one step.  Any transaction may be rolled back.                       *)
(*                                                                         *)
(* The limit of a subscription's license is read, not kept: the policy or   *)
(* the plan in force.                                                       *)
(* Versions, labels, heartbeats and fleets are left out.  Revocations of   *)
(* single devices and installations are read by the code but written by    *)
(* none of it; that of a license is always written with its status.        *)
(***************************************************************************)
EXTENDS Integers, FiniteSets

CONSTANTS
    Clients,        \* requests of the customer
    Erasers,        \* operators executing the deletion of the account
    Installations,  \* install keys
    Devices,        \* device keys
    Manual,         \* licenses issued by an operator
    Linked,         \* licenses of subscriptions
    Limits,         \* device limits
    None

Procs == Clients \cup Erasers
Licenses == Manual \cup Linked

ASSUME LicensingAssumption ==
    /\ Clients \cap Erasers = {}
    /\ Manual \cap Linked = {}
    /\ IsFiniteSet(Installations)
    /\ Limits \subseteq Nat
    /\ None \notin Procs \cup Installations \cup Devices \cup Licenses

VARIABLES
    customer,       \* customer_profiles.status
    device,         \* devices
    installation,   \* installations
    license,        \* licenses
    lapsed,         \* manual licenses whose expires_at has passed
    active,         \* the active rows of license_activations
    lease,          \* the license and installation of the last row of license_leases
    erased,         \* licenses the customer had when the account was erased
    profileLock,    \* row lock on customer_profiles
    licLock,        \* row locks on licenses
    pc, job         \* the statement a process is at, and what it has read

people == <<customer, device, installation>>
grants == <<license, lapsed, erased>>
locks == <<profileLock, licLock>>
vars == <<people, grants, active, lease, locks, pc, job>>

NoJob == [installation |-> None, license |-> None, limit |-> 0]

TypeOK ==
    /\ customer \in {"active", "suspended", "anonymized"}
    /\ device \in [Devices -> {"absent", "active", "revoked"}]
    /\ installation \in [Installations -> [status: {"absent", "active", "deactivated"},
                                           device: Devices \cup {None}]]
    /\ license \in [Licenses -> [status: {"absent", "active", "suspended", "revoked", "expired"},
                                 limit: Limits \cup {0}]]
    /\ lapsed \subseteq Manual
    /\ active \subseteq Licenses \X Installations
    /\ lease \in (Licenses \X Installations) \cup {None}
    /\ erased \subseteq Licenses
    /\ profileLock \in Erasers \cup {None}
    /\ licLock \in [Licenses -> Procs \cup {None}]
    /\ pc \in [Procs -> {"idle", "admitted", "license", "insert", "lease", "licenses"}]
    /\ job \in [Procs -> [installation: Installations \cup {None},
                          license: Licenses \cup {None}, limit: Limits \cup {0}]]

(* The installations a license is active on. *)
Holders(l) == {i \in Installations : <<l, i>> \in active}
------------------------------------------------------------------------------
(* Transactions.                                                            *)

GoTo(p, where) == pc' = [pc EXCEPT ![p] = where]

Kept(lock, p) == lock                                           \* mutant
Freed(lock, p) == IF lock = p THEN None ELSE lock

Finish(p) ==
    /\ profileLock' = Freed(profileLock, p)
    /\ licLock' = [l \in Licenses |-> Freed(licLock[l], p)]
    /\ GoTo(p, "idle")
    /\ job' = [job EXCEPT ![p] = NoJob]

Abort(p) ==
    /\ pc[p] # "idle"
    /\ Finish(p)
    /\ UNCHANGED <<people, grants, active, lease>>

(* A row that refers to the profile can be inserted, and so can any audit   *)
(* row of the customer.                                                     *)
ProfileFree == profileLock = None
------------------------------------------------------------------------------
(* Requests of the customer.                                                *)

(* CustomerContext::require_active, from a status read before the handler.  *)
Admit(c) ==
    /\ pc[c] = "idle"
    /\ customer = "active"
    /\ GoTo(c, "admitted")
    /\ UNCHANGED <<people, grants, active, lease, locks, job>>

(* A request that is refused, or only reads. *)
Answer(c) ==
    /\ pc[c] = "admitted"
    /\ Finish(c)
    /\ UNCHANGED <<people, grants, active, lease>>

(* register_installation: a known device keeps its status, a known          *)
(* installation becomes active again and keeps its device if none is given. *)
(* Only a known installation without a device needs nothing of the profile. *)
Register(c, i, d) ==
    LET known == installation[i].status # "absent"
    IN  /\ pc[c] = "admitted"
        /\ (d # None \/ ~known) => ProfileFree
        /\ device' = IF d # None /\ device[d] = "absent"
                     THEN [device EXCEPT ![d] = "active"] ELSE device
        /\ installation' = [installation EXCEPT ![i] =
               [status |-> "active", device |-> IF d # None THEN d ELSE @.device]]
        /\ Finish(c)
        /\ UNCHANGED <<customer, grants, active, lease>>

(* Not deactivated, and not on a revoked device. *)
Runs(i) ==
    /\ installation[i].status = "active"
    /\ installation[i].device # None => device[installation[i].device] # "revoked"

ReadInstallation(c, i) ==
    /\ pc[c] = "admitted"
    /\ Runs(i)
    /\ GoTo(c, "license")
    /\ job' = [job EXCEPT ![c].installation = i]
    /\ UNCHANGED <<people, grants, active, lease, locks>>

Usable(l) == license[l].status = "active" /\ l \notin lapsed

(* The limit a request may find: that of the policy or plan in force, which *)
(* changes without a lock, or the one the license was issued with.          *)
DeviceLimit(l) == IF l \in Linked THEN Limits ELSE {license[l].limit}

(* can_activate_device *)
AtMost(count, limit) == count <= limit                          \* mutant
CanActivate(count, limit) == count < limit

(* select ... for update: without an id in the request the newest license   *)
(* in force is taken, which is among those a request may name.  All that    *)
(* is checked now is checked under the lock.  A license that is active on   *)
(* the installation already is reported so.                                 *)
Unlocked(l) == TRUE                                             \* mutant
FreeLicense(l) == licLock[l] = None

LockLicense(c, l, limit) ==
    LET i == job[c].installation
    IN  /\ pc[c] = "license"
        /\ license[l].status # "absent"
        /\ FreeLicense(l)
        /\ limit \in DeviceLimit(l)
        /\ IF /\ Usable(l)
              /\ <<l, i>> \notin active
              /\ CanActivate(Cardinality(Holders(l)), limit)
           THEN /\ licLock' = [licLock EXCEPT ![l] = c]
                /\ GoTo(c, "insert")
                /\ job' = [job EXCEPT ![c].license = l, ![c].limit = limit]
                /\ UNCHANGED profileLock
           ELSE Finish(c)
        /\ UNCHANGED <<people, grants, active, lease>>

(* NoActiveLicense, or LicenseNotFound. *)
NoneFound(c) ==
    /\ pc[c] = "license"
    /\ ~\E l \in Licenses : Usable(l)
    /\ Finish(c)
    /\ UNCHANGED <<people, grants, active, lease>>

(* The activation with its audit row. *)
InsertActivation(c) ==
    /\ pc[c] = "insert"
    /\ ProfileFree
    /\ active' = active \cup {<<job[c].license, job[c].installation>>}
    /\ Finish(c)
    /\ UNCHANGED <<people, grants, lease>>

(* deactivate_installation; a second time it does nothing. *)
Released(i) == {a \in active : a[2] # i}

Deactivate(c, i) ==
    /\ pc[c] = "admitted"
    /\ installation[i].status = "active"
    /\ ProfileFree
    /\ installation' = [installation EXCEPT ![i].status = "deactivated"]
    /\ active' = Released(i)
    /\ Finish(c)
    /\ UNCHANGED <<customer, device, grants, lease>>

(* issue_offline_lease: everything is read, then the lease is written. *)
ReadLeaseContext(c, i, l) ==
    /\ pc[c] = "admitted"
    /\ Runs(i)
    /\ <<l, i>> \in active
    /\ Usable(l)
    /\ GoTo(c, "lease")
    /\ job' = [job EXCEPT ![c].installation = i, ![c].license = l]
    /\ UNCHANGED <<people, grants, active, lease, locks>>

InsertLease(c) ==
    /\ pc[c] = "lease"
    /\ ProfileFree
    /\ lease' = <<job[c].license, job[c].installation>>
    /\ Finish(c)
    /\ UNCHANGED <<people, grants, active>>
------------------------------------------------------------------------------
(* Operators, subscriptions and time.                                       *)

(* set_customer_status: suspend and restore, from any status. *)
SetCustomerStatus(status) ==
    /\ ProfileFree
    /\ customer # status
    /\ customer' = status
    /\ UNCHANGED <<device, installation, grants, active, lease, locks, pc, job>>

IssueLicense(l, limit) ==
    /\ l \in Manual
    /\ license[l].status = "absent"
    /\ ProfileFree
    /\ license' = [license EXCEPT ![l] = [status |-> "active", limit |-> limit]]
    /\ UNCHANGED <<people, lapsed, erased, active, lease, locks, pc, job>>

(* revoke_license leaves the activations as they are. *)
RevokeLicense(l) ==
    /\ license[l].status \notin {"absent", "revoked"}
    /\ FreeLicense(l) /\ ProfileFree
    /\ license' = [license EXCEPT ![l].status = "revoked"]
    /\ UNCHANGED <<people, lapsed, erased, active, lease, locks, pc, job>>

(* sync_license_for_subscription, for any change of the subscription. *)
SyncRaw(l, status) == IF status = "expired" THEN "canceled" ELSE status  \* mutant
SyncAny(l, status) == status                                    \* mutant
SyncedTo(l, status) ==
    CASE license[l].status = "revoked" -> "revoked"
      [] license[l].status = "absent" -> IF status = "active" THEN status ELSE "absent"
      [] license[l].status = "expired" -> IF status = "active" THEN status ELSE "expired"
      [] OTHER -> status

SyncLicense(l, status) ==
    /\ l \in Linked
    /\ FreeLicense(l) /\ ProfileFree
    /\ license[l].status # SyncedTo(l, status)
    /\ license' = [license EXCEPT ![l].status = SyncedTo(l, status)]
    /\ UNCHANGED <<people, lapsed, erased, active, lease, locks, pc, job>>

Lapse(l) ==
    /\ l \in Manual \ lapsed
    /\ license[l].status # "absent"
    /\ lapsed' = lapsed \cup {l}
    /\ UNCHANGED <<people, license, erased, active, lease, locks, pc, job>>
------------------------------------------------------------------------------
(* execute_deletion.  Whether a subscription is open is not known here.     *)

LockProfile(e) ==
    /\ pc[e] = "idle"
    /\ ProfileFree
    /\ profileLock' = e
    /\ GoTo(e, "licenses")
    /\ UNCHANGED <<people, grants, active, lease, licLock, job>>

Existing == {l \in Licenses : license[l].status # "absent"}
Unrevoked == {l \in Existing : license[l].status # "revoked"}

(* update ... where status <> 'revoked': row by row. *)
LockNext(e, l) ==
    /\ pc[e] = "licenses"
    /\ l \in Unrevoked
    /\ FreeLicense(l)
    /\ licLock' = [licLock EXCEPT ![l] = e]
    /\ UNCHANGED <<people, grants, active, lease, profileLock, pc, job>>

Erase(e) ==
    /\ pc[e] = "licenses"
    /\ \A l \in Unrevoked : licLock[l] = e
    /\ customer' = "anonymized"
    /\ device' = [d \in Devices |-> IF device[d] = "absent" THEN "absent" ELSE "revoked"]
    /\ license' = [l \in Licenses |->
           IF l \in Unrevoked THEN [license[l] EXCEPT !.status = "revoked"] ELSE license[l]]
    /\ installation' = [i \in Installations |->
           IF installation[i].status = "active"
           THEN [installation[i] EXCEPT !.status = "deactivated"] ELSE installation[i]]
    /\ active' = {}
    /\ erased' = erased \cup Existing
    /\ Finish(e)
    /\ UNCHANGED <<lapsed, lease>>
------------------------------------------------------------------------------
Init ==
    /\ customer = "active"
    /\ device = [d \in Devices |-> "absent"]
    /\ installation = [i \in Installations |-> [status |-> "absent", device |-> None]]
    /\ license = [l \in Licenses |-> [status |-> "absent", limit |-> 0]]
    /\ lapsed = {}
    /\ active = {} /\ erased = {}
    /\ lease = None
    /\ profileLock = None
    /\ licLock = [l \in Licenses |-> None]
    /\ pc = [p \in Procs |-> "idle"]
    /\ job = [p \in Procs |-> NoJob]

(* What an admitted request, or an erasure that has begun, does next. *)
Request(c) ==
    \/ Answer(c) \/ NoneFound(c) \/ InsertActivation(c) \/ InsertLease(c)
    \/ \E i \in Installations :
          \/ ReadInstallation(c, i) \/ Deactivate(c, i)
          \/ \E d \in Devices \cup {None} : Register(c, i, d)
          \/ \E l \in Licenses : ReadLeaseContext(c, i, l)
    \/ \E l \in Licenses, limit \in Limits : LockLicense(c, l, limit)

Erasure(e) == Erase(e) \/ \E l \in Licenses : LockNext(e, l)

Operation ==
    \/ \E status \in {"active", "suspended"} : SetCustomerStatus(status)
    \/ \E l \in Licenses :
          \/ \E limit \in Limits : IssueLicense(l, limit)
          \/ \E status \in {"active", "suspended", "expired"} : SyncLicense(l, status)
          \/ RevokeLicense(l) \/ Lapse(l)

Next ==
    \/ \E c \in Clients : Admit(c) \/ Request(c)
    \/ \E e \in Erasers : LockProfile(e) \/ Erasure(e)
    \/ \E p \in Procs : Abort(p)
    \/ Operation

Spec == Init /\ [][Next]_vars
------------------------------------------------------------------------------
(* "The license row is locked during activation so concurrent requests      *)
(* cannot oversubscribe the limit": a license whose limit never changes     *)
(* never has more active installations than that.                           *)
CapacityHeld == \A l \in Manual : Cardinality(Holders(l)) <= license[l].limit

(* A license becomes active on one more installation only while it is in    *)
(* good standing, whatever was committed since the request checked it, and  *)
(* within the limit the request was decided on; and only one at a time.     *)
GrantSound ==
    [][\A l \in Licenses, i \in Installations :
          <<l, i>> \in active' \ active =>
              /\ license[l].status = "active"
              /\ \E c \in Clients :
                    /\ pc[c] = "insert" /\ job[c].license = l
                    /\ Cardinality(Holders(l)) < job[c].limit
              /\ active' = active \cup {<<l, i>>}]_vars

(* "Licenses: explicit revocation (never silently reactivatable)": what the *)
(* customer had when the account was erased stays revoked and without an    *)
(* activation, although requests admitted before go on, subscriptions are   *)
(* synced and the customer's status may be restored.                        *)
ErasureFinal == \A l \in erased : license[l].status = "revoked" /\ Holders(l) = {}

(* What the documents say and the code does not keep: TLC refutes each as a *)
(* further property of the run.                                             *)

(* "deactivates the installation and releases its active activations,       *)
(* freeing device slots (idempotent)": a deactivated installation has no    *)
(* active activation.                                                       *)
SlotsFreed ==
    \A i \in Installations : installation[i].status = "deactivated" =>
        \A l \in Licenses : <<l, i>> \notin active
==============================================================================
