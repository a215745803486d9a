--------------------------- MODULE LicensingProofs ---------------------------
(***************************************************************************)
(* Device capacity, sound grants and the finality of an erasure, for any   *)
(* number of clients, erasures, installations and licenses.                *)
(*                                                                         *)
(* An activation is inserted on the strength of what was checked when the  *)
(* license was locked.  The invariant says that a request about to insert  *)
(* still has that lock and that what it checked still holds.               *)
(***************************************************************************)
EXTENDS Licensing, FiniteSetTheorems, TLAPS

(* What a request carries from one statement to the next. *)
Reads(c) ==
    /\ pc[c] \in {"license", "insert", "lease"} => job[c].installation \in Installations
    /\ pc[c] \in {"insert", "lease"} => job[c].license \in Licenses

(* The decision of a request about to insert an activation still stands. *)
Stands(c) ==
    pc[c] = "insert" =>
        LET l == job[c].license
        IN  /\ licLock[l] = c
            /\ license[l].status = "active"
            /\ l \in Manual => job[c].limit = license[l].limit
            /\ Cardinality(Holders(l)) < job[c].limit

Fresh == \A l \in Licenses : license[l].status = "absent" => Holders(l) = {}

Rows == CapacityHeld /\ ErasureFinal /\ Fresh

IInv ==
    /\ TypeOK
    /\ \A c \in Clients : Reads(c) /\ Stands(c)
    /\ Rows
------------------------------------------------------------------------------
(* The end of a transaction has the types of its parts. *)
LEMMA FinishType ==
    ASSUME TypeOK, NEW p \in Procs, Finish(p)
    PROVE  /\ profileLock' \in Erasers \cup {None}
           /\ licLock' \in [Licenses -> Procs \cup {None}]
           /\ pc' \in [Procs -> {"idle", "admitted", "license", "insert", "lease", "licenses"}]
           /\ job' \in [Procs -> [installation: Installations \cup {None},
                          license: Licenses \cup {None}, limit: Limits \cup {0}]]
BY DEF TypeOK, Finish, Freed, GoTo, NoJob

LEMMA TypeStep ==
    ASSUME TypeOK, \A c \in Clients : Reads(c), [Next]_vars
    PROVE  TypeOK'
<1>1. ASSUME NEW c \in Clients, Admit(c) PROVE TypeOK'
  BY <1>1 DEF Admit, GoTo, TypeOK, people, grants, locks
<1>2. ASSUME NEW p \in Procs, Finish(p), UNCHANGED <<people, grants, active, lease>> PROVE TypeOK'
  BY <1>2, FinishType DEF TypeOK, people, grants
<1>3. ASSUME NEW c \in Clients, Request(c) PROVE TypeOK'
  <2>0. c \in Procs
    BY DEF Procs
  <2>1. CASE Answer(c) \/ NoneFound(c)
    BY <2>0, <2>1, <1>2 DEF Answer, NoneFound
  <2>2. CASE InsertActivation(c)
    BY <2>0, <2>2, FinishType DEF InsertActivation, Reads, TypeOK, people, grants
  <2>3. CASE InsertLease(c)
    BY <2>0, <2>3, FinishType DEF InsertLease, Reads, TypeOK, people, grants
  <2>4. ASSUME NEW i \in Installations, ReadInstallation(c, i) PROVE TypeOK'
    BY <2>0, <2>4 DEF ReadInstallation, GoTo, TypeOK, people, grants, locks
  <2>5. ASSUME NEW i \in Installations, Deactivate(c, i) PROVE TypeOK'
    BY <2>0, <2>5, FinishType DEF Deactivate, Released, TypeOK, grants
  <2>6. ASSUME NEW i \in Installations, NEW d \in Devices \cup {None}, Register(c, i, d)
        PROVE  TypeOK'
    BY <2>0, <2>6, FinishType DEF Register, TypeOK, grants
  <2>7. ASSUME NEW i \in Installations, NEW l \in Licenses, ReadLeaseContext(c, i, l)
        PROVE  TypeOK'
    BY <2>0, <2>7 DEF ReadLeaseContext, GoTo, TypeOK, people, grants, locks
  <2>8. ASSUME NEW l \in Licenses, NEW limit \in Limits, LockLicense(c, l, limit) PROVE TypeOK'
    <3>1. CASE Finish(c)
      BY <2>0, <2>8, <3>1, <1>2 DEF LockLicense
    <3>2. CASE ~Finish(c)
      <4>1. /\ licLock' = [licLock EXCEPT ![l] = c]
            /\ pc' = [pc EXCEPT ![c] = "insert"]
            /\ job' = [job EXCEPT ![c].license = l, ![c].limit = limit]
            /\ UNCHANGED <<customer, device, installation, license, lapsed, erased, active, lease,
                           profileLock>>
        BY <2>8, <3>2 DEF LockLicense, GoTo, people, grants
      <4>2. QED
        BY <2>0, <4>1 DEF TypeOK
    <3>3. QED
      BY <3>1, <3>2
  <2>9. QED
    BY <1>3, <2>1, <2>2, <2>3, <2>4, <2>5, <2>6, <2>7, <2>8 DEF Request
<1>4. ASSUME NEW e \in Erasers, LockProfile(e) PROVE TypeOK'
  BY <1>4 DEF LockProfile, GoTo, TypeOK, people, grants, Procs
<1>5. ASSUME NEW e \in Erasers, Erase(e) PROVE TypeOK'
  <2>1. e \in Procs
    BY DEF Procs
  <2>2. /\ customer' = "anonymized" /\ active' = {} /\ erased' = erased \cup Existing
        /\ Finish(e) /\ UNCHANGED <<lapsed, lease>>
    BY <1>5 DEF Erase
  <2>3. device' \in [Devices -> {"absent", "active", "revoked"}]
    BY <1>5 DEF Erase, TypeOK
  <2>4. license' \in [Licenses -> [limit: Limits \cup {0},
                       status: {"absent", "active", "suspended", "revoked", "expired"}]]
    BY <1>5 DEF Erase, TypeOK
  <2>5. installation' \in [Installations -> [status: {"absent", "active", "deactivated"},
                                             device: Devices \cup {None}]]
    BY <1>5 DEF Erase, TypeOK
  <2>6. Existing \subseteq Licenses
    BY DEF Existing
  <2>7. QED
    BY <2>1, <2>2, <2>3, <2>4, <2>5, <2>6, FinishType DEF TypeOK
<1>6. ASSUME NEW e \in Erasers, NEW l \in Licenses, LockNext(e, l) PROVE TypeOK'
  BY <1>6 DEF LockNext, TypeOK, people, grants, Procs
<1>7. ASSUME NEW p \in Procs, Abort(p) PROVE TypeOK'
  BY <1>7, <1>2 DEF Abort
<1>8. ASSUME Operation PROVE TypeOK'
  <2>1. ASSUME NEW s \in {"active", "suspended"}, SetCustomerStatus(s) PROVE TypeOK'
    BY <2>1 DEF SetCustomerStatus, TypeOK, grants, locks
  <2>2. ASSUME NEW l \in Licenses, NEW limit \in Limits, IssueLicense(l, limit) PROVE TypeOK'
    BY <2>2 DEF IssueLicense, TypeOK, people, locks
  <2>3. ASSUME NEW l \in Licenses, NEW s \in {"active", "suspended", "expired"}, SyncLicense(l, s)
        PROVE  TypeOK'
    BY <2>3 DEF SyncLicense, SyncedTo, TypeOK, people, locks
  <2>4. ASSUME NEW l \in Licenses, RevokeLicense(l) PROVE TypeOK'
    BY <2>4 DEF RevokeLicense, TypeOK, people, locks
  <2>5. ASSUME NEW l \in Licenses, Lapse(l) PROVE TypeOK'
    BY <2>5 DEF Lapse, TypeOK, people, locks
  <2>6. QED
    BY <1>8, <2>1, <2>2, <2>3, <2>4, <2>5 DEF Operation
<1>9. CASE UNCHANGED vars
  BY <1>9 DEF vars, people, grants, locks, TypeOK
<1>10. QED
  BY <1>1, <1>3, <1>4, <1>5, <1>6, <1>7, <1>8, <1>9 DEF Next, Erasure
------------------------------------------------------------------------------
LEMMA LimitsNatural == \A limit \in Limits \cup {0} : limit \in Nat
BY LicensingAssumption DEF LicensingAssumption

LEMMA HoldersFinite ==
    ASSUME NEW l
    PROVE  IsFiniteSet(Holders(l)) /\ Cardinality(Holders(l)) \in Nat
<1>1. Holders(l) \in SUBSET Installations /\ IsFiniteSet(Installations)
  BY LicensingAssumption DEF Holders, LicensingAssumption
<1>2. IsFiniteSet(Holders(l))
  BY <1>1, FS_Subset
<1>3. QED
  BY <1>2, FS_CardinalityType

LEMMA HoldersFiniteNext ==
    ASSUME NEW l
    PROVE  IsFiniteSet(Holders(l)') /\ Cardinality(Holders(l)') \in Nat
<1>1. Holders(l)' \in SUBSET Installations /\ IsFiniteSet(Installations)
  BY LicensingAssumption DEF Holders, LicensingAssumption
<1>2. IsFiniteSet(Holders(l)')
  BY <1>1, FS_Subset
<1>3. QED
  BY <1>2, FS_CardinalityType

(* What loses holders has no more of them. *)
LEMMA Fewer ==
    ASSUME NEW l, Holders(l)' \subseteq Holders(l)
    PROVE  Cardinality(Holders(l)') <= Cardinality(Holders(l))
BY HoldersFinite, FS_Subset

(* A request keeps its decision when a step leaves it, its lock and its     *)
(* license alone and takes holders away at most.                            *)
LEMMA Unaffected ==
    ASSUME TypeOK, NEW c \in Clients, Reads(c), Stands(c),
           pc'[c] = pc[c], job'[c] = job[c],
           \A l \in Licenses : pc[c] = "insert" /\ job[c].license = l =>
              /\ licLock'[l] = licLock[l]
              /\ license'[l] = license[l]
              /\ Holders(l)' \subseteq Holders(l)
    PROVE  Reads(c)' /\ Stands(c)'
<1>1. Reads(c)'
  BY DEF Reads
<1>2. CASE pc[c] # "insert"
  BY <1>1, <1>2 DEF Stands
<1>3. CASE pc[c] = "insert"
  <2>0. PICK l \in Licenses : l = job[c].license
    BY <1>3 DEF Reads
  <2>1. /\ licLock[l] = c /\ license[l].status = "active"
        /\ l \in Manual => job[c].limit = license[l].limit
        /\ Cardinality(Holders(l)) < job[c].limit
    BY <1>3, <2>0 DEF Stands
  <2>2. Cardinality(Holders(l)') <= Cardinality(Holders(l))
    BY <1>3, <2>0, Fewer
  <2>3. job[c].limit \in Nat
    <3>1. job[c].limit \in Limits \cup {0}
      BY DEF TypeOK, Procs
    <3>2. QED
      BY <3>1, LimitsNatural
  <2>4. Cardinality(Holders(l)') < job[c].limit
    BY <2>1, <2>2, <2>3, HoldersFinite, HoldersFiniteNext
  <2>5. job'[c].license = l /\ licLock'[l] = c /\ license'[l] = license[l]
    BY <1>3, <2>0, <2>1
  <2>6. Stands(c)'
    BY <1>3, <2>1, <2>4, <2>5 DEF Stands
  <2>7. QED
    BY <1>1, <2>6
<1>4. QED
  BY <1>2, <1>3

(* The end of a transaction leaves the decisions of the others. *)
LEMMA FinishStands ==
    ASSUME TypeOK, \A c \in Clients : Reads(c) /\ Stands(c),
           NEW p \in Procs, Finish(p),
           \A c \in Clients, l \in Licenses :
              c # p /\ pc[c] = "insert" /\ job[c].license = l =>
                 license'[l] = license[l] /\ Holders(l)' \subseteq Holders(l)
    PROVE  \A c \in Clients : Reads(c)' /\ Stands(c)'
<1> SUFFICES ASSUME NEW c \in Clients PROVE Reads(c)' /\ Stands(c)'
  OBVIOUS
<1>1. CASE c = p
  BY <1>1 DEF Finish, GoTo, TypeOK, Reads, Stands
<1>2. CASE c # p
  <2>1. pc'[c] = pc[c] /\ job'[c] = job[c]
    BY <1>2 DEF Finish, GoTo, TypeOK, Procs
  <2>2. ASSUME NEW l \in Licenses, pc[c] = "insert", job[c].license = l
        PROVE  licLock'[l] = licLock[l]
    BY <1>2, <2>2 DEF Finish, Freed, Stands
  <2>3. QED
    BY <1>2, <2>1, <2>2, Unaffected
<1>3. QED
  BY <1>1, <1>2

(* The rows stay as they must when licenses keep their limits, none comes   *)
(* back, and no activation is added.                                        *)
LEMMA RowsKept ==
    ASSUME TypeOK, TypeOK', Rows, erased' = erased, active' \subseteq active,
           \A l \in Licenses :
              /\ license'[l].limit = license[l].limit
              /\ license'[l].status = "absent" => license[l].status = "absent"
              /\ license[l].status = "revoked" => license'[l].status = "revoked"
    PROVE  Rows'
<1>1. \A l \in Licenses : Holders(l)' \subseteq Holders(l)
  BY DEF Holders
<1>2. CapacityHeld'
  <2> SUFFICES ASSUME NEW l \in Manual PROVE Cardinality(Holders(l)') <= license'[l].limit
    BY DEF CapacityHeld
  <2>1. l \in Licenses
    BY DEF Licenses
  <2>2. Cardinality(Holders(l)') <= Cardinality(Holders(l))
    BY <1>1, <2>1, Fewer
  <2>3. Cardinality(Holders(l)) <= license[l].limit
    BY DEF Rows, CapacityHeld
  <2>4. license[l].limit \in Nat
    <3>1. license[l].limit \in Limits \cup {0}
      BY <2>1 DEF TypeOK
    <3>2. QED
      BY <3>1, LimitsNatural
  <2>5. QED
    BY <2>1, <2>2, <2>3, <2>4, HoldersFinite, HoldersFiniteNext
<1>3. ErasureFinal'
  BY <1>1 DEF Rows, ErasureFinal, TypeOK
<1>4. Fresh'
  BY <1>1 DEF Rows, Fresh
<1>5. QED
  BY <1>2, <1>3, <1>4 DEF Rows
------------------------------------------------------------------------------
(* Steps that change neither licenses nor activations. *)
LEMMA QuietStep ==
    ASSUME IInv, TypeOK', license' = license, erased' = erased, active' \subseteq active
    PROVE  Rows'
BY RowsKept DEF IInv

LEMMA RequestStep ==
    ASSUME IInv, TypeOK', NEW c \in Clients, Request(c)
    PROVE  (\A b \in Clients : Reads(b)' /\ Stands(b)') /\ Rows'
<1>0. c \in Procs /\ TypeOK /\ Rows /\ \A b \in Clients : Reads(b) /\ Stands(b)
  BY DEF Procs, IInv
<1>1. ASSUME Finish(c), UNCHANGED <<license, erased>>, active' \subseteq active
      PROVE  (\A b \in Clients : Reads(b)' /\ Stands(b)') /\ Rows'
  <2>1. \A l \in Licenses : Holders(l)' \subseteq Holders(l)
    BY <1>1 DEF Holders
  <2>3. \A b \in Clients : Reads(b)' /\ Stands(b)'
    BY <1>0, <1>1, <2>1, FinishStands
  <2>4. QED
    BY <1>1, <2>3, QuietStep
<1>2. CASE Answer(c) \/ NoneFound(c) \/ InsertLease(c)
  BY <1>1, <1>2 DEF Answer, NoneFound, InsertLease, grants
<1>3. CASE InsertActivation(c)
  <2>0. PICK m \in Licenses, i \in Installations :
              m = job[c].license /\ i = job[c].installation
    BY <1>0, <1>3 DEF InsertActivation, Reads
  <2>1. /\ licLock[m] = c /\ license[m].status = "active"
        /\ m \in Manual => job[c].limit = license[m].limit
        /\ Cardinality(Holders(m)) < job[c].limit
    BY <1>0, <1>3, <2>0 DEF InsertActivation, Stands
  <2>2. /\ Finish(c) /\ UNCHANGED <<license, erased>>
        /\ active' = active \cup {<<m, i>>}
    BY <1>3, <2>0 DEF InsertActivation, grants
  <2>3. \A l \in Licenses : l # m => Holders(l)' = Holders(l)
    BY <2>2 DEF Holders
  <2>4. Holders(m)' = Holders(m) \cup {i}
    BY <2>1, <2>2 DEF Holders
  <2>5. \A b \in Clients : b # c /\ pc[b] = "insert" =>
            job[b].license # m
    BY <1>0, <2>1 DEF Stands
  <2>6. \A b \in Clients : Reads(b)' /\ Stands(b)'
    BY <1>0, <2>2, <2>3, <2>5, FinishStands
  <2>7. CapacityHeld'
    <3> SUFFICES ASSUME NEW l \in Manual PROVE Cardinality(Holders(l)') <= license'[l].limit
      BY DEF CapacityHeld
    <3>1. l \in Licenses
      BY DEF Licenses
    <3>2. CASE l # m
      BY <1>0, <2>2, <2>3, <3>1, <3>2 DEF Rows, CapacityHeld
    <3>3. CASE l = m
      <4>1. Cardinality(Holders(m)') <= Cardinality(Holders(m)) + 1
        <5>1. Cardinality(Holders(m)') =
                 IF i \in Holders(m) THEN Cardinality(Holders(m)) ELSE Cardinality(Holders(m)) + 1
          BY <2>4, HoldersFinite, FS_AddElement, Zenon
        <5>2. QED
          BY <5>1, HoldersFinite
      <4>2. license[m].limit \in Nat
        <5>1. license[m].limit \in Limits \cup {0}
          BY <1>0, <2>1 DEF TypeOK
        <5>2. QED
          BY <5>1, LimitsNatural
      <4>3. Cardinality(Holders(m)) < license[m].limit
        BY <2>1, <3>3
      <4>4. Cardinality(Holders(m)') <= license[m].limit
        BY <4>1, <4>2, <4>3, HoldersFinite, HoldersFiniteNext
      <4>5. QED
        BY <2>2, <3>3, <4>4
    <3>4. QED
      BY <3>2, <3>3
  <2>8. ErasureFinal'
    <3> SUFFICES ASSUME NEW l \in erased
                 PROVE  license[l].status = "revoked" /\ Holders(l)' = {}
      BY <2>2 DEF ErasureFinal
    <3>1. l \in Licenses /\ license[l].status = "revoked" /\ Holders(l) = {}
      BY <1>0 DEF Rows, ErasureFinal, TypeOK
    <3>2. QED
      BY <2>1, <2>3, <3>1
  <2>9. Fresh'
    BY <1>0, <2>1, <2>2, <2>3 DEF Rows, Fresh
  <2>10. QED
    BY <2>6, <2>7, <2>8, <2>9 DEF Rows
<1>4. ASSUME NEW i \in Installations, ReadInstallation(c, i)
      PROVE  (\A b \in Clients : Reads(b)' /\ Stands(b)') /\ Rows'
  <2>1. /\ UNCHANGED <<license, erased, active, licLock>>
        /\ pc' = [pc EXCEPT ![c] = "license"]
        /\ job' = [job EXCEPT ![c].installation = i]
    BY <1>4 DEF ReadInstallation, GoTo, grants, locks
  <2>2. Reads(c)' /\ Stands(c)'
    BY <1>0, <2>1 DEF Reads, Stands, TypeOK
  <2>3. ASSUME NEW b \in Clients, b # c PROVE Reads(b)' /\ Stands(b)'
    <3>1. pc'[b] = pc[b] /\ job'[b] = job[b]
      BY <1>0, <2>1, <2>3 DEF TypeOK, Procs
    <3>2. \A l \in Licenses : Holders(l)' = Holders(l)
      BY <2>1 DEF Holders
    <3>3. QED
      BY <1>0, <2>1, <3>1, <3>2, Unaffected
  <2>4. QED
    BY <2>1, <2>2, <2>3, QuietStep
<1>5. ASSUME NEW i \in Installations, Deactivate(c, i)
      PROVE  (\A b \in Clients : Reads(b)' /\ Stands(b)') /\ Rows'
  BY <1>1, <1>5 DEF Deactivate, Released, grants
<1>6. ASSUME NEW i \in Installations, NEW d \in Devices \cup {None}, Register(c, i, d)
      PROVE  (\A b \in Clients : Reads(b)' /\ Stands(b)') /\ Rows'
  BY <1>1, <1>6 DEF Register, grants
<1>7. ASSUME NEW i \in Installations, NEW k \in Licenses, ReadLeaseContext(c, i, k)
      PROVE  (\A b \in Clients : Reads(b)' /\ Stands(b)') /\ Rows'
  <2>1. /\ UNCHANGED <<license, erased, active, licLock>>
        /\ pc' = [pc EXCEPT ![c] = "lease"]
        /\ job' = [job EXCEPT ![c].installation = i, ![c].license = k]
    BY <1>7 DEF ReadLeaseContext, GoTo, grants, locks
  <2>2. Reads(c)' /\ Stands(c)'
    BY <1>0, <2>1 DEF Reads, Stands, TypeOK
  <2>3. ASSUME NEW b \in Clients, b # c PROVE Reads(b)' /\ Stands(b)'
    <3>1. pc'[b] = pc[b] /\ job'[b] = job[b]
      BY <1>0, <2>1, <2>3 DEF TypeOK, Procs
    <3>2. \A l \in Licenses : Holders(l)' = Holders(l)
      BY <2>1 DEF Holders
    <3>3. QED
      BY <1>0, <2>1, <3>1, <3>2, Unaffected
  <2>4. QED
    BY <2>1, <2>2, <2>3, QuietStep
<1>8. ASSUME NEW l \in Licenses, NEW limit \in Limits, LockLicense(c, l, limit)
      PROVE  (\A b \in Clients : Reads(b)' /\ Stands(b)') /\ Rows'
  <2>1. UNCHANGED <<license, erased, active>>
    BY <1>8 DEF LockLicense, grants
  <2>2. CASE Finish(c)
    BY <1>1, <2>1, <2>2
  <2>3. CASE ~Finish(c)
    <3>1. /\ licLock' = [licLock EXCEPT ![l] = c]
          /\ pc' = [pc EXCEPT ![c] = "insert"]
          /\ job' = [job EXCEPT ![c].license = l, ![c].limit = limit]
          /\ pc[c] = "license" /\ licLock[l] = None
          /\ license[l].status = "active"
          /\ limit \in DeviceLimit(l)
          /\ Cardinality(Holders(l)) < limit
      BY <1>8, <2>3 DEF LockLicense, GoTo, Usable, CanActivate, FreeLicense
    <3>2. pc'[c] = "insert" /\ job'[c].license = l /\ job'[c].limit = limit
          /\ licLock'[l] = c /\ job'[c].installation = job[c].installation
      BY <1>0, <3>1 DEF TypeOK
    <3>3. l \in Manual => limit = license[l].limit
      BY <3>1, LicensingAssumption DEF DeviceLimit, LicensingAssumption
    <3>4. Holders(l)' = Holders(l)
      BY <2>1 DEF Holders
    <3>5. Reads(c)' /\ Stands(c)'
      BY <1>0, <2>1, <3>1, <3>2, <3>3, <3>4 DEF Reads, Stands
    <3>6. ASSUME NEW b \in Clients, b # c PROVE Reads(b)' /\ Stands(b)'
      <4>1. pc'[b] = pc[b] /\ job'[b] = job[b]
        BY <1>0, <3>1, <3>6 DEF TypeOK, Procs
      <4>2. pc[b] = "insert" => job[b].license # l
        BY <1>0, <3>1, LicensingAssumption DEF Stands, LicensingAssumption, Procs
      <4>3. \A k \in Licenses : /\ Holders(k)' = Holders(k)
                                /\ k # l => licLock'[k] = licLock[k]
        BY <1>0, <2>1, <3>1 DEF Holders, TypeOK
      <4>4. QED
        BY <1>0, <2>1, <4>1, <4>2, <4>3, Unaffected
    <3>7. QED
      BY <2>1, <3>5, <3>6, QuietStep
  <2>4. QED
    BY <2>2, <2>3
<1>9. QED
  BY <1>2, <1>3, <1>4, <1>5, <1>6, <1>7, <1>8 DEF Request

(* Erasures, operators and rolled back transactions. *)
LEMMA OtherStep ==
    ASSUME IInv, TypeOK',
           \/ \E c \in Clients : Admit(c)
           \/ \E e \in Erasers : LockProfile(e) \/ Erasure(e)
           \/ \E p \in Procs : Abort(p)
           \/ Operation
           \/ UNCHANGED vars
    PROVE  (\A b \in Clients : Reads(b)' /\ Stands(b)') /\ Rows'
<1> DEFINE Good == (\A b \in Clients : Reads(b)' /\ Stands(b)') /\ Rows'
<1>0. TypeOK /\ Rows /\ \A b \in Clients : Reads(b) /\ Stands(b)
  BY DEF IInv
(* A step of p that takes no lock of another and leaves the rows alone. *)
<1>1. ASSUME NEW p \in Procs, UNCHANGED <<license, erased, active>>,
             \A b \in Clients : b # p => pc'[b] = pc[b] /\ job'[b] = job[b],
             p \in Clients => Reads(p)' /\ pc'[p] # "insert",
             \A l \in Licenses : licLock[l] \in Clients => licLock'[l] = licLock[l]
      PROVE  Good
  <2>1. \A l \in Licenses : Holders(l)' = Holders(l)
    BY <1>1 DEF Holders
  <2>2. ASSUME NEW b \in Clients, b # p PROVE Reads(b)' /\ Stands(b)'
    <3>1. \A l \in Licenses : pc[b] = "insert" /\ job[b].license = l => licLock'[l] = licLock[l]
      BY <1>0, <1>1 DEF Stands
    <3>2. QED
      BY <1>0, <1>1, <2>1, <2>2, <3>1, Unaffected
  <2>3. ASSUME p \in Clients PROVE Reads(p)' /\ Stands(p)'
    BY <1>1, <2>3 DEF Stands
  <2>4. QED
    BY <1>1, <2>2, <2>3, QuietStep
(* A step that touches no process and no lock, and only a license that is   *)
(* not locked.                                                              *)
<1>2. ASSUME NEW m \in Licenses, UNCHANGED <<pc, job, licLock, active, erased>>,
             licLock[m] = None,
             \A l \in Licenses : l # m => license'[l] = license[l]
      PROVE  \A b \in Clients : Reads(b)' /\ Stands(b)'
  <2>1. \A l \in Licenses : Holders(l)' = Holders(l)
    BY <1>2 DEF Holders
  <2>2. ASSUME NEW b \in Clients PROVE Reads(b)' /\ Stands(b)'
    <3>1. pc[b] = "insert" => job[b].license # m
      BY <1>0, <1>2, LicensingAssumption DEF Stands, LicensingAssumption, Procs
    <3>2. QED
      BY <1>0, <1>2, <2>1, <3>1, Unaffected
  <2>3. QED
    BY <2>2
<1>3. ASSUME NEW c \in Clients, Admit(c) PROVE Good
  <2>1. /\ UNCHANGED <<license, erased, active, licLock, job>>
        /\ pc' = [pc EXCEPT ![c] = "admitted"]
    BY <1>3 DEF Admit, GoTo, grants, locks
  <2>2. Reads(c)' /\ pc'[c] # "insert"
    BY <1>0, <2>1 DEF Reads, TypeOK, Procs
  <2>3. \A b \in Clients : b # c => pc'[b] = pc[b]
    BY <1>0, <2>1 DEF TypeOK, Procs
  <2>4. c \in Procs
    BY DEF Procs
  <2>5. QED
    BY <1>1, <2>1, <2>2, <2>3, <2>4
<1>4. ASSUME NEW e \in Erasers, LockProfile(e) PROVE Good
  <2>1. /\ UNCHANGED <<license, erased, active, licLock, job>>
        /\ pc' = [pc EXCEPT ![e] = "licenses"]
    BY <1>4 DEF LockProfile, GoTo, grants
  <2>2. \A b \in Clients : b # e => pc'[b] = pc[b]
    BY <1>0, <2>1 DEF TypeOK, Procs
  <2>3. e \in Procs /\ e \notin Clients
    BY LicensingAssumption DEF Procs, LicensingAssumption
  <2>4. QED
    BY <1>1, <2>1, <2>2, <2>3
<1>5. ASSUME NEW e \in Erasers, NEW m \in Licenses, LockNext(e, m) PROVE Good
  <2>1. /\ UNCHANGED <<license, erased, active, pc, job>>
        /\ licLock[m] = None /\ licLock' = [licLock EXCEPT ![m] = e]
    BY <1>5 DEF LockNext, FreeLicense, grants
  <2>2. e \in Procs /\ e \notin Clients /\ None \notin Clients
    BY LicensingAssumption DEF Procs, LicensingAssumption
  <2>3. \A l \in Licenses : licLock[l] \in Clients => licLock'[l] = licLock[l]
    BY <1>0, <2>1, <2>2 DEF TypeOK
  <2>4. QED
    BY <1>1, <2>1, <2>2, <2>3
<1>6. ASSUME NEW e \in Erasers, Erase(e) PROVE Good
  <2>1. e \in Procs /\ e \notin Clients
    BY LicensingAssumption DEF Procs, LicensingAssumption
  <2>2. /\ Finish(e) /\ active' = {} /\ erased' = erased \cup Existing
        /\ license' = [l \in Licenses |-> IF l \in Unrevoked
              THEN [license[l] EXCEPT !.status = "revoked"] ELSE license[l]]
        /\ \A l \in Unrevoked : licLock[l] = e
    BY <1>6 DEF Erase
  <2>3. \A l \in Licenses : Holders(l)' = {}
    BY <2>2 DEF Holders
  <2>4. \A b \in Clients : ~(pc[b] = "insert")
    <3> SUFFICES ASSUME NEW b \in Clients, pc[b] = "insert" PROVE FALSE
      OBVIOUS
    <3>1. PICK l \in Licenses : l = job[b].license
      BY <1>0 DEF Reads
    <3>2. licLock[l] = b /\ license[l].status = "active"
      BY <1>0, <3>1 DEF Stands
    <3>3. l \in Unrevoked
      BY <3>2 DEF Unrevoked, Existing
    <3>4. QED
      BY <2>1, <2>2, <3>2, <3>3
  <2>5. \A b \in Clients : Reads(b)' /\ Stands(b)'
    BY <1>0, <2>1, <2>2, <2>4, FinishStands
  <2>6. CapacityHeld'
    <3> SUFFICES ASSUME NEW l \in Manual PROVE Cardinality(Holders(l)') <= license'[l].limit
      BY DEF CapacityHeld
    <3>1. l \in Licenses
      BY DEF Licenses
    <3>2. Cardinality(Holders(l)') = 0
      BY <2>3, <3>1, FS_EmptySet
    <3>3. license'[l].limit \in Limits \cup {0}
      BY <3>1 DEF TypeOK
    <3>4. QED
      BY <3>2, <3>3, LimitsNatural
  <2>7. ErasureFinal'
    <3> SUFFICES ASSUME NEW l \in erased' PROVE license'[l].status = "revoked" /\ Holders(l)' = {}
      BY DEF ErasureFinal
    <3>1. l \in Licenses
      BY DEF TypeOK
    <3>2. license[l].status = "revoked" \/ l \in Unrevoked
      BY <1>0, <2>2 DEF Rows, ErasureFinal, Existing, Unrevoked
    <3>3. license'[l].status = "revoked"
      BY <1>0, <2>2, <3>1, <3>2 DEF TypeOK
    <3>4. QED
      BY <2>3, <3>1, <3>3
  <2>8. Fresh'
    BY <2>3 DEF Fresh
  <2>9. QED
    BY <2>5, <2>6, <2>7, <2>8 DEF Rows
<1>7. ASSUME NEW p \in Procs, Abort(p) PROVE Good
  <2>1. Finish(p) /\ UNCHANGED <<license, erased, active>>
    BY <1>7 DEF Abort, grants
  <2>2. \A l \in Licenses : Holders(l)' = Holders(l)
    BY <2>1 DEF Holders
  <2>3. \A b \in Clients : Reads(b)' /\ Stands(b)'
    BY <1>0, <2>1, <2>2, FinishStands
  <2>4. QED
    BY <2>1, <2>3, QuietStep
<1>8. ASSUME UNCHANGED <<license, erased, active, licLock, pc, job>> PROVE Good
  <2>1. \A l \in Licenses : Holders(l)' = Holders(l)
    BY <1>8 DEF Holders
  <2>2. \A b \in Clients : Reads(b)' /\ Stands(b)'
    BY <1>0, <1>8, <2>1, Unaffected
  <2>3. QED
    BY <1>8, <2>2, QuietStep
<1>9. ASSUME NEW m \in Licenses, NEW limit \in Limits, IssueLicense(m, limit) PROVE Good
  <2>1. /\ UNCHANGED <<pc, job, licLock, active, erased>>
        /\ license[m].status = "absent" /\ m \in Manual
        /\ license' = [license EXCEPT ![m] = [status |-> "active", limit |-> limit]]
    BY <1>9 DEF IssueLicense, locks
  <2>2. \A l \in Licenses : l # m => license'[l] = license[l]
    BY <1>0, <2>1 DEF TypeOK
  <2>3. \A l \in Licenses : Holders(l)' = Holders(l)
    BY <2>1 DEF Holders
  <2>4. Holders(m) = {} /\ m \notin erased
    BY <1>0, <2>1 DEF Rows, Fresh, ErasureFinal
  <2>5. ASSUME NEW b \in Clients PROVE Reads(b)' /\ Stands(b)'
    <3>1. pc[b] = "insert" => job[b].license # m
      BY <1>0, <2>1 DEF Stands
    <3>2. QED
      BY <1>0, <2>1, <2>2, <2>3, <3>1, Unaffected
  <2>6. CapacityHeld'
    <3> SUFFICES ASSUME NEW l \in Manual PROVE Cardinality(Holders(l)') <= license'[l].limit
      BY DEF CapacityHeld
    <3>1. l \in Licenses
      BY DEF Licenses
    <3>2. CASE l # m
      BY <1>0, <2>2, <2>3, <3>1, <3>2 DEF Rows, CapacityHeld
    <3>3. CASE l = m
      <4>1. Cardinality(Holders(l)') = 0
        BY <2>3, <2>4, <3>3, FS_EmptySet
      <4>2. license'[l].limit \in Limits \cup {0}
        BY <3>1 DEF TypeOK
      <4>3. QED
        BY <4>1, <4>2, LimitsNatural
    <3>4. QED
      BY <3>2, <3>3
  <2>7. ErasureFinal'
    <3> SUFFICES ASSUME NEW l \in erased PROVE license'[l].status = "revoked" /\ Holders(l)' = {}
      BY <2>1 DEF ErasureFinal
    <3>1. l \in Licenses /\ l # m
      BY <1>0, <2>4 DEF TypeOK
    <3>2. QED
      BY <1>0, <2>2, <2>3, <3>1 DEF Rows, ErasureFinal
  <2>8. Fresh'
    BY <1>0, <2>2, <2>3, <2>4 DEF Rows, Fresh
  <2>9. QED
    BY <2>5, <2>6, <2>7, <2>8 DEF Rows
<1>10. ASSUME NEW m \in Licenses, NEW s \in {"active", "suspended", "expired"}, SyncLicense(m, s)
       PROVE  Good
  <2>1. /\ UNCHANGED <<pc, job, licLock, active, erased>> /\ licLock[m] = None
        /\ license' = [license EXCEPT ![m].status = SyncedTo(m, s)]
    BY <1>10 DEF SyncLicense, FreeLicense, locks
  <2>2. /\ SyncedTo(m, s) = "absent" => license[m].status = "absent"
        /\ license[m].status = "revoked" => SyncedTo(m, s) = "revoked"
    BY DEF SyncedTo
  <2>3. \A l \in Licenses : l # m => license'[l] = license[l]
    BY <1>0, <2>1 DEF TypeOK
  <2>4. license'[m].limit = license[m].limit /\ license'[m].status = SyncedTo(m, s)
    BY <1>0, <2>1 DEF TypeOK
  <2>5. Rows'
    BY <1>0, <2>1, <2>2, <2>3, <2>4, RowsKept
  <2>6. QED
    BY <1>2, <2>1, <2>3, <2>5
<1>11. ASSUME NEW m \in Licenses, RevokeLicense(m) PROVE Good
  <2>1. /\ UNCHANGED <<pc, job, licLock, active, erased>> /\ licLock[m] = None
        /\ license' = [license EXCEPT ![m].status = "revoked"]
    BY <1>11 DEF RevokeLicense, FreeLicense, locks
  <2>2. \A l \in Licenses : l # m => license'[l] = license[l]
    BY <1>0, <2>1 DEF TypeOK
  <2>3. license'[m].limit = license[m].limit /\ license'[m].status = "revoked"
    BY <1>0, <2>1 DEF TypeOK
  <2>4. Rows'
    BY <1>0, <2>1, <2>2, <2>3, RowsKept
  <2>5. QED
    BY <1>2, <2>1, <2>2, <2>4
<1>12. ASSUME NEW m \in Licenses, Lapse(m) PROVE Good
  BY <1>8, <1>12 DEF Lapse, locks
<1>13. ASSUME NEW s \in {"active", "suspended"}, SetCustomerStatus(s) PROVE Good
  BY <1>8, <1>13 DEF SetCustomerStatus, grants, locks
<1>14. CASE Operation
  BY <1>9, <1>10, <1>11, <1>12, <1>13, <1>14 DEF Operation
<1>15. CASE UNCHANGED vars
  BY <1>8, <1>15 DEF vars, grants, locks
<1>16. QED
  BY <1>3, <1>4, <1>5, <1>6, <1>7, <1>14, <1>15 DEF Erasure
------------------------------------------------------------------------------
LEMMA Inductive == Spec => []IInv
<1>1. Init => IInv
  <2> SUFFICES ASSUME Init PROVE IInv
    OBVIOUS
  <2>1. TypeOK
    BY DEF Init, TypeOK, NoJob
  <2>2. \A c \in Clients : Reads(c) /\ Stands(c)
    BY DEF Init, Reads, Stands, Procs
  <2>3. \A l \in Licenses : Holders(l) = {} /\ license[l].limit = 0
    BY DEF Init, Holders
  <2>4. CapacityHeld
    BY <2>3, FS_EmptySet DEF CapacityHeld, Licenses
  <2>5. ErasureFinal /\ Fresh
    BY <2>3 DEF Init, ErasureFinal, Fresh
  <2>6. QED
    BY <2>1, <2>2, <2>4, <2>5 DEF IInv, Rows
<1>2. IInv /\ [Next]_vars => IInv'
  <2> SUFFICES ASSUME IInv, [Next]_vars PROVE IInv'
    OBVIOUS
  <2>1. TypeOK'
    BY TypeStep DEF IInv
  <2>2. (\A c \in Clients : Reads(c)' /\ Stands(c)') /\ Rows'
    <3>1. CASE \E c \in Clients : Request(c)
      BY <2>1, <3>1, RequestStep
    <3>2. CASE ~\E c \in Clients : Request(c)
      BY <2>1, <3>2, OtherStep DEF Next
    <3>3. QED
      BY <3>1, <3>2
  <2>3. QED
    BY <2>1, <2>2 DEF IInv
<1>3. QED
  BY <1>1, <1>2, PTL DEF Spec

(* Every row and every request's working data has its type, whatever the    *)
(* requests, operators and erasures.                                        *)
THEOREM TypeCorrect == Spec => []TypeOK
<1>1. IInv => TypeOK
  BY DEF IInv
<1>2. QED
  BY <1>1, Inductive, PTL

(* activate_installation never oversubscribes an issued license: the lock   *)
(* makes the count it compares with the limit the count it adds to.         *)
THEOREM CapacityRespected == Spec => []CapacityHeld
<1>1. IInv => CapacityHeld
  BY DEF IInv, Rows
<1>2. QED
  BY <1>1, Inductive, PTL

(* Licenses revoked by execute_deletion keep no activation and never come   *)
(* back, although requests admitted before the erasure go on after it.      *)
THEOREM ErasureStands == Spec => []ErasureFinal
<1>1. IInv => ErasureFinal
  BY DEF IInv, Rows
<1>2. QED
  BY <1>1, Inductive, PTL

(* Only the insertion of an activation adds one. *)
LEMMA OnlyInserts ==
    ASSUME [Next]_vars, ~\E c \in Clients : InsertActivation(c)
    PROVE  active' \subseteq active
<1>1. ASSUME NEW c \in Clients, Request(c) PROVE active' \subseteq active
  BY <1>1 DEF Request, Answer, NoneFound, InsertLease, ReadInstallation, Deactivate, Released,
     Register, ReadLeaseContext, LockLicense
<1>2. ASSUME Operation PROVE active' \subseteq active
  BY <1>2 DEF Operation, SetCustomerStatus, IssueLicense, SyncLicense, RevokeLicense, Lapse
<1>3. QED
  BY <1>1, <1>2 DEF Next, Admit, LockProfile, Erasure, Erase, LockNext, Abort, vars

(* Whatever is committed between the checks of activate_installation and    *)
(* its insert, a grant is made on a license in good standing and within the *)
(* limit it was decided on.                                                 *)
THEOREM GrantsSound == Spec => GrantSound
<1> DEFINE Sound(l, i) ==
        <<l, i>> \in active' \ active =>
            /\ license[l].status = "active"
            /\ \E c \in Clients :
                  /\ pc[c] = "insert" /\ job[c].license = l
                  /\ Cardinality(Holders(l)) < job[c].limit
            /\ active' = active \cup {<<l, i>>}
<1>1. IInv /\ [Next]_vars => \A l \in Licenses, i \in Installations : Sound(l, i)
  <2> SUFFICES ASSUME IInv, [Next]_vars, NEW l \in Licenses, NEW i \in Installations,
                      <<l, i>> \in active' \ active
               PROVE  Sound(l, i)
    OBVIOUS
  <2>1. PICK c \in Clients : InsertActivation(c)
    BY OnlyInserts
  <2>2. /\ pc[c] = "insert"
        /\ active' = active \cup {<<job[c].license, job[c].installation>>}
    BY <2>1 DEF InsertActivation
  <2>3. job[c].license = l /\ job[c].installation = i
    BY <2>2
  <2>4. license[l].status = "active" /\ Cardinality(Holders(l)) < job[c].limit
    BY <2>2, <2>3 DEF IInv, Stands
  <2>5. QED
    BY <2>2, <2>3, <2>4
<1>2. IInv /\ [Next]_vars => [\A l \in Licenses, i \in Installations : Sound(l, i)]_vars
  BY <1>1
<1>3. QED
  BY Inductive, <1>2, PTL DEF Spec, GrantSound
==============================================================================
