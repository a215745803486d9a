-------------------------- MODULE UsageLedgerProofs --------------------------
(* Proofs about UsageLedger, for every set of keys, buckets and processes. *)
EXTENDS UsageLedger, FiniteSetTheorems, TLAPS

(* What a request carries at each statement of its transaction. *)
CallShape ==
    \A p \in Procs :
        /\ pc[p] \in {"totals", "expire", "decided"} =>
              /\ call[p].op \in {"reserve", "charge"}
              /\ call[p].op = "reserve" => call[p].res \in ResKeys
              /\ call[p].op = "charge" => call[p].key \in EventKeys
              /\ call[p].bucket \in Buckets
              /\ call[p].amount \in Amounts
              /\ call[p].limit \in Limits
        /\ pc[p] \in {"row", "insert", "fold"} =>
              /\ call[p].op \in {"commit", "release", "adjust", "sweep"}
              /\ call[p].op \in {"commit", "release"} => call[p].res \in ResKeys
              /\ call[p].op \in {"commit", "adjust"} => call[p].key \in EventKeys
              /\ call[p].op = "commit" => call[p].limit \in Limits
              /\ call[p].op = "adjust" => /\ call[p].bucket \in Buckets
                                          /\ call[p].amount \in AdjustAmounts
        /\ pc[p] = "row" => call[p].op \in {"commit", "release"}
        /\ pc[p] = "insert" => \/ call[p].op = "adjust"
                               \/ call[p].op = "commit" /\ call[p].outcome = "committed"
        /\ pc[p] = "fold" /\ call[p].op = "commit" => call[p].outcome \in {"committed", "expired"}
        /\ pc[p] = "fold" /\ call[p].op = "release" => call[p].outcome = "released"

LEMMA UnitsFinite ==
    ASSUME TypeOK, NEW S \in SUBSET ResKeys
    PROVE  /\ IsFiniteSet(UnitsOf(S))
           /\ Cardinality(UnitsOf(S)) \in Nat
<1>1. IsFiniteSet(S)
  BY FS_Subset, UsageAssumption DEF UsageAssumption
<1>2. IsFiniteSet(Amounts)
  BY FS_Interval, UsageAssumption DEF UsageAssumption, Amounts
<1>3. IsFiniteSet(S \X Amounts)
  BY <1>1, <1>2, FS_Product
<1>4. IsFiniteSet(UnitsOf(S))
  BY <1>3, FS_Subset DEF UnitsOf
<1>5. QED
  BY <1>4, FS_CardinalityType

LEMMA FreedType ==
    ASSUME TypeOK, NEW S \in SUBSET ResKeys, NEW b
    PROVE  Freed(S, b) \in Nat
<1>1. {r \in S : reservations[r].bucket = b} \in SUBSET ResKeys
  OBVIOUS
<1>2. QED
  BY <1>1, UnitsFinite DEF Freed

LEMMA SettledType ==
    ASSUME TypeOK, NEW S, NEW status \in Terminal
    PROVE  Settled(S, status) \in [ResKeys -> Reservation]
BY DEF TypeOK, Settled, Reservation

LEMMA WithUsedType ==
    ASSUME TypeOK, NEW b, NEW amount \in Int
    PROVE  WithUsed(b, amount) \in [Buckets -> Int]
<1>1. CASE b \in Buckets
  <2>1. used[b] + amount \in Int
    BY <1>1 DEF TypeOK
  <2>2. QED
    BY <2>1 DEF WithUsed, TypeOK
<1>2. CASE b \notin Buckets
  BY <1>2 DEF WithUsed, TypeOK
<1>3. QED
  BY <1>1, <1>2

LEMMA ReducedType ==
    ASSUME TypeOK, NEW b, NEW amount \in Int
    PROVE  [reserved EXCEPT ![b] = Clamped(@ - amount)] \in [Buckets -> Nat]
<1>1. CASE b \in Buckets
  <2>1. Clamped(reserved[b] - amount) \in Nat
    BY <1>1 DEF TypeOK, Clamped
  <2>2. QED
    BY <2>1 DEF TypeOK
<1>2. CASE b \notin Buckets
  BY <1>2 DEF TypeOK
<1>3. QED
  BY <1>1, <1>2

LEMMA FinishType ==
    ASSUME TypeOK, NEW p \in Procs, Finish(p)
    PROVE  /\ rowLock' \in [ResKeys -> Procs \cup {None}]
           /\ keyLock' \in [EventKeys -> Procs \cup {None}]
           /\ totLock' \in [Buckets -> Procs \cup {None}]
           /\ pc' \in [Procs -> {"idle", "totals", "expire", "decided", "row", "insert", "fold"}]
           /\ call' \in [Procs -> Call]
           /\ clock' \in 0..MaxClock
<1>1. NoCall \in Call
  BY UsageAssumption DEF UsageAssumption, NoCall, Ask, Call
<1>2. QED
  BY <1>1 DEF TypeOK, Finish, Unlocked

LEMMA CallType == NoCall \in Call
BY UsageAssumption DEF UsageAssumption, NoCall, Ask, Call

(* A new request has the fields it was given. *)
LEMMA BeginType ==
    ASSUME TypeOK, NEW p \in Procs, NEW where \in {"totals", "row", "insert", "fold"},
           NEW request \in Call, Begin(p, where, request)
    PROVE  /\ pc' \in [Procs -> {"idle", "totals", "expire", "decided", "row", "insert", "fold"}]
           /\ call' \in [Procs -> Call]
BY DEF TypeOK, Begin

LEMMA ReservedNowType ==
    ASSUME TypeOK, CallShape, NEW p \in Procs, pc[p] = "decided"
    PROVE  ReservedNow(p) \in Nat
<1>1. call[p].bucket \in Buckets
  BY DEF CallShape
<1>2. reserved[call[p].bucket] \in Nat
  BY <1>1 DEF TypeOK
<1>3. Stale(p) \in SUBSET ResKeys
  BY DEF Stale, Overdue
<1>4. Freed(Stale(p), call[p].bucket) \in Nat
  BY <1>3, FreedType
<1>5. QED
  BY <1>2, <1>4 DEF ReservedNow, Clamped

LEMMA TypeStep == TypeOK /\ CallShape /\ [Next]_vars => TypeOK'
<1> SUFFICES ASSUME TypeOK, CallShape, [Next]_vars PROVE TypeOK'
  OBVIOUS
<1> USE UsageAssumption DEF UsageAssumption
<1>1. ASSUME NEW p \in Clients, Request(p) PROVE TypeOK'
  <2>1. ASSUME NEW b \in Buckets, NEW amount \in Amounts, NEW limit \in Limits,
               NEW r \in ResKeys, BeginReserve(p, r, b, amount, limit)
        PROVE  TypeOK'
    <3>1. Ask("reserve", r, None, b, amount, limit, clock) \in Call
      BY DEF Ask, Call, Amounts, TypeOK
    <3>2. QED
      BY <2>1, <3>1, BeginType DEF BeginReserve, TypeOK, tables, locks, Procs
  <2>2. ASSUME NEW b \in Buckets, NEW amount \in Amounts, NEW limit \in Limits,
               NEW k \in EventKeys, BeginCharge(p, k, b, amount, limit)
        PROVE  TypeOK'
    <3>1. Ask("charge", None, k, b, amount, limit, clock) \in Call
      BY DEF Ask, Call, Amounts, TypeOK
    <3>2. QED
      BY <2>2, <3>1, BeginType DEF BeginCharge, TypeOK, tables, locks, Procs
  <2>3. ASSUME NEW r \in ResKeys, NEW k \in EventKeys, NEW limit \in Limits,
               BeginCommit(p, r, k, limit)
        PROVE  TypeOK'
    <3>1. Ask("commit", r, k, None, 0, limit, 0) \in Call
      BY DEF Ask, Call, TypeOK
    <3>2. QED
      BY <2>3, <3>1, BeginType DEF BeginCommit, TypeOK, tables, locks, Procs
  <2>4. ASSUME NEW r \in ResKeys, BeginRelease(p, r) PROVE TypeOK'
    <3>1. Ask("release", r, None, None, 0, Unlimited, 0) \in Call
      BY DEF Ask, Call, TypeOK
    <3>2. QED
      BY <2>4, <3>1, BeginType DEF BeginRelease, TypeOK, tables, locks, Procs
  <2>5. ASSUME NEW k \in EventKeys, NEW b \in Buckets, NEW amount \in AdjustAmounts,
               BeginAdjust(p, k, b, amount)
        PROVE  TypeOK'
    <3>1. Ask("adjust", None, k, b, amount, Unlimited, 0) \in Call
      BY DEF Ask, Call, TypeOK
    <3>2. QED
      BY <2>5, <3>1, BeginType DEF BeginAdjust, TypeOK, tables, locks, Procs
  <2>6. QED
    BY <1>1, <2>1, <2>2, <2>3, <2>4, <2>5 DEF Request
<1>2. ASSUME NEW p \in Clients, Statement(p) PROVE TypeOK'
  <2> p \in Procs
    BY DEF Procs
  <2>1. CASE LockTotals(p)
    BY <2>1 DEF LockTotals, GoTo, TypeOK, tables, locks
  <2>2. ASSUME NEW r \in ResKeys, LockStale(p, r) PROVE TypeOK'
    BY <2>2 DEF LockStale, TypeOK, tables, locks
  <2>3. CASE Decide(p)
    BY <2>3 DEF Decide, GoTo, TypeOK, tables, locks, Call, Terminal
  <2>4. CASE ReserveDenied(p) \/ ReserveReplayed(p) \/ ChargeDenied(p) \/ ChargeReplayed(p)
    <3>1. Settled(Stale(p), "expired") \in [ResKeys -> Reservation]
      BY SettledType DEF Terminal
    <3>2. ReservedNow(p) \in Nat
      BY <2>4, ReservedNowType DEF ReserveDenied, ReserveReplayed, ChargeDenied,
         ChargeReplayed, Decided
    <3>3. /\ reservations' \in [ResKeys -> Reservation]
          /\ reserved' \in [Buckets -> Nat]
          /\ usage_events' = usage_events /\ used' = used
      BY <2>4, <3>1, <3>2 DEF ExpireOnly, ReserveDenied, ReserveReplayed, ChargeDenied,
         ChargeReplayed, TypeOK
    <3>4. decisions' \subseteq (ResKeys \cup EventKeys) \X {"allow", "deny"}
      BY <2>4 DEF ReserveDenied, ReserveReplayed, ChargeDenied, ChargeReplayed, TypeOK,
         CallShape, Decided
    <3>5. QED
      BY <2>4, <3>3, <3>4, FinishType DEF ReserveDenied, ReserveReplayed, ChargeDenied,
         ChargeReplayed, TypeOK
  <2>5. CASE Reserve(p)
    <3> DEFINE row == [status |-> "pending", bucket |-> call[p].bucket,
                       amount |-> call[p].amount, expires_at |-> Deadline]
    <3>1. pc[p] = "decided" /\ call[p].op = "reserve"
      BY <2>5 DEF Reserve, Decided
    <3>2. row \in Reservation
      BY <3>1 DEF Reservation, CallShape, Deadline, Amounts, TypeOK
    <3>3. reservations' \in [ResKeys -> Reservation]
      BY <2>5, <3>2, SettledType DEF Reserve, Terminal
    <3>4. reserved' \in [Buckets -> Nat]
      BY <2>5, <3>1, ReservedNowType DEF Reserve, CallShape, Amounts, TypeOK
    <3>5. decisions' \subseteq (ResKeys \cup EventKeys) \X {"allow", "deny"}
      BY <2>5, <3>1 DEF Reserve, CallShape, TypeOK
    <3>6. QED
      BY <2>5, <3>3, <3>4, <3>5, FinishType DEF Reserve, TypeOK
  <2>6. CASE Charge(p)
    <3> DEFINE event == [kind |-> "commit", bucket |-> call[p].bucket,
                         amount |-> call[p].amount, reservation |-> None]
    <3>1. pc[p] = "decided" /\ call[p].op = "charge"
      BY <2>6 DEF Charge, Decided
    <3>2. event \in Event
      BY <3>1 DEF Event, CallShape, Amounts, TypeOK
    <3>3. usage_events' \in [EventKeys -> Event]
      BY <2>6, <3>2 DEF Charge, TypeOK
    <3>4. reservations' \in [ResKeys -> Reservation]
      BY <2>6, SettledType DEF Charge, Terminal
    <3>5. used' \in [Buckets -> Int] /\ reserved' \in [Buckets -> Nat]
      BY <2>6, <3>1, ReservedNowType DEF Charge, WithUsed, CallShape, Amounts, TypeOK
    <3>6. decisions' \subseteq (ResKeys \cup EventKeys) \X {"allow", "deny"}
      BY <2>6, <3>1 DEF Charge, CallShape, TypeOK
    <3>7. QED
      BY <2>6, <3>3, <3>4, <3>5, <3>6, FinishType DEF Charge, TypeOK
  <2>7. CASE FoundTerminal(p)
    BY <2>7, FinishType DEF FoundTerminal, TypeOK, tables
  <2>8. CASE LockRow(p)
    <3> DEFINE live == call[p].op = "commit" /\ reservations[call[p].res].expires_at > clock
               outcome == IF live THEN "committed"
                          ELSE IF call[p].op = "commit" THEN "expired" ELSE "released"
    <3>1. outcome \in Terminal
      BY DEF Terminal
    <3>2. call' = [call EXCEPT ![p].outcome = outcome]
      BY <2>8 DEF LockRow
    <3> HIDE DEF outcome
    <3>3. call' \in [Procs -> Call]
      BY <3>1, <3>2 DEF TypeOK, Call
    <3>4. pc' \in [Procs -> {"idle", "totals", "expire", "decided", "row", "insert", "fold"}]
      BY <2>8 DEF LockRow, GoTo, TypeOK
    <3>5. rowLock' \in [ResKeys -> Procs \cup {None}]
      BY <2>8 DEF LockRow, TypeOK
    <3>6. QED
      BY <2>8, <3>3, <3>4, <3>5 DEF LockRow, TypeOK, tables
  <2>9. CASE InsertReplayed(p)
    BY <2>9, FinishType DEF InsertReplayed, TypeOK, tables
  <2>10. CASE InsertEvent(p)
    BY <2>10 DEF InsertEvent, GoTo, TypeOK, tables, locks
  <2>11. CASE FoldCommit(p)
    <3> DEFINE r == call[p].res
               event == [kind |-> "commit", bucket |-> BucketOf(p),
                         amount |-> reservations[r].amount, reservation |-> r]
    <3>1. call[p].op = "commit" /\ r \in ResKeys
      BY <2>11 DEF FoldCommit, AtFreeTotals, CallShape
    <3>2. BucketOf(p) = reservations[r].bucket
      BY <3>1 DEF BucketOf
    <3>3. event \in Event
      BY <3>1, <3>2 DEF Event, TypeOK, Reservation
    <3>4. usage_events' \in [EventKeys -> Event]
      BY <2>11, <3>3 DEF FoldCommit, TypeOK
    <3>5. reservations' \in [ResKeys -> Reservation]
      BY <2>11, SettledType DEF FoldCommit, Terminal
    <3>6. reservations[r].amount \in Nat
      BY <3>1 DEF TypeOK, Reservation
    <3>7. used' \in [Buckets -> Int] /\ reserved' \in [Buckets -> Nat]
      <4>1. WithUsed(BucketOf(p), reservations[r].amount) \in [Buckets -> Int]
        BY <3>6, WithUsedType
      <4>2. [reserved EXCEPT ![BucketOf(p)] = Clamped(@ - reservations[r].amount)]
               \in [Buckets -> Nat]
        BY <3>6, ReducedType
      <4>3. QED
        BY <2>11, <4>1, <4>2 DEF FoldCommit
    <3>8. QED
      BY <2>11, <3>4, <3>5, <3>7, FinishType DEF FoldCommit, TypeOK
  <2>12. CASE FoldExpired(p)
    <3>1. call[p].res \in ResKeys /\ call[p].outcome \in Terminal
      BY <2>12 DEF FoldExpired, AtFreeTotals, CallShape, Terminal
    <3>2. reservations' \in [ResKeys -> Reservation]
      BY <2>12, <3>1, SettledType DEF FoldExpired
    <3>3. reservations[call[p].res].amount \in Nat
      BY <3>1 DEF TypeOK, Reservation
    <3>4. reserved' \in [Buckets -> Nat]
      <4>1. [reserved EXCEPT ![BucketOf(p)] = Clamped(@ - reservations[call[p].res].amount)]
               \in [Buckets -> Nat]
        BY <3>3, ReducedType
      <4>2. QED
        BY <2>12, <4>1 DEF FoldExpired
    <3>5. QED
      BY <2>12, <3>2, <3>4, FinishType DEF FoldExpired, TypeOK
  <2>13. CASE FoldAdjust(p)
    <3> DEFINE event == [kind |-> "adjustment", bucket |-> call[p].bucket,
                         amount |-> call[p].amount, reservation |-> None]
    <3>1. event \in Event
      BY <2>13 DEF Event, FoldAdjust, AtFreeTotals, CallShape
    <3>2. usage_events' \in [EventKeys -> Event]
      BY <2>13, <3>1 DEF FoldAdjust, TypeOK
    <3>3. used' \in [Buckets -> Int]
      <4>1. call[p].amount \in Int
        BY DEF TypeOK, Call
      <4>2. QED
        BY <2>13, <4>1, WithUsedType DEF FoldAdjust
    <3>4. QED
      BY <2>13, <3>2, <3>3, FinishType DEF FoldAdjust, TypeOK
  <2>14. QED
    BY <1>2, <2>1, <2>2, <2>3, <2>4, <2>5, <2>6, <2>7, <2>8, <2>9, <2>10, <2>11, <2>12, <2>13
    DEF Statement
<1>3. ASSUME NEW p \in Sweepers, Sweep(p) PROVE TypeOK'
  <2> p \in Procs
    BY DEF Procs
  <2>1. ASSUME NEW S \in SUBSET ResKeys, SweepRows(p, S) PROVE TypeOK'
    <3>1. Ask("sweep", None, None, None, 0, Unlimited, 0) \in Call
      BY DEF Ask, Call
    <3>2. QED
      BY <2>1, <3>1, BeginType DEF SweepRows, TypeOK, tables
  <2>2. ASSUME NEW b \in Buckets, SweepTotals(p, b) PROVE TypeOK'
    BY <2>2 DEF SweepTotals, TypeOK, tables
  <2>3. CASE SweepCommit(p)
    <3>1. reservations' \in [ResKeys -> Reservation]
      BY <2>3, SettledType DEF SweepCommit, Terminal
    <3>2. \A b \in Buckets : Freed(LockedRows(p), b) \in Nat
      BY FreedType DEF LockedRows
    <3>3. reserved' \in [Buckets -> Nat]
      BY <2>3, <3>2 DEF SweepCommit, Clamped, TypeOK
    <3>4. QED
      BY <2>3, <3>1, <3>3, FinishType DEF SweepCommit, TypeOK
  <2>4. QED
    BY <1>3, <2>1, <2>2, <2>3 DEF Sweep, SweepStart
<1>4. ASSUME NEW p \in Procs, Abort(p) PROVE TypeOK'
  BY <1>4, FinishType DEF Abort, TypeOK, tables
<1>5. CASE Tick
  BY <1>5 DEF Tick, TypeOK, tables, locks
<1>6. CASE UNCHANGED vars
  BY <1>6 DEF vars, tables, locks, TypeOK
<1>7. QED
  BY <1>1, <1>2, <1>3, <1>4, <1>5, <1>6 DEF Next

(* A process that stays or becomes idle carries nothing to constrain. *)
LEMMA FinishShape ==
    ASSUME TypeOK, CallShape, NEW p \in Procs, Finish(p)
    PROVE  CallShape'
BY DEF TypeOK, CallShape, Finish

LEMMA ShapeStep == TypeOK /\ CallShape /\ [Next]_vars => CallShape'
<1> SUFFICES ASSUME TypeOK, CallShape, [Next]_vars PROVE CallShape'
  OBVIOUS
<1>1. ASSUME NEW p \in Clients, Request(p) PROVE CallShape'
  <2> p \in Procs
    BY DEF Procs
  <2>1. ASSUME NEW b \in Buckets, NEW amount \in Amounts, NEW limit \in Limits,
               NEW r \in ResKeys, BeginReserve(p, r, b, amount, limit)
        PROVE  CallShape'
    BY <2>1 DEF BeginReserve, Begin, Ask, TypeOK, CallShape
  <2>2. ASSUME NEW b \in Buckets, NEW amount \in Amounts, NEW limit \in Limits,
               NEW k \in EventKeys, BeginCharge(p, k, b, amount, limit)
        PROVE  CallShape'
    BY <2>2 DEF BeginCharge, Begin, Ask, TypeOK, CallShape
  <2>3. ASSUME NEW r \in ResKeys, NEW k \in EventKeys, NEW limit \in Limits,
               BeginCommit(p, r, k, limit)
        PROVE  CallShape'
    BY <2>3 DEF BeginCommit, Begin, Ask, TypeOK, CallShape
  <2>4. ASSUME NEW r \in ResKeys, BeginRelease(p, r) PROVE CallShape'
    BY <2>4 DEF BeginRelease, Begin, Ask, TypeOK, CallShape
  <2>5. ASSUME NEW k \in EventKeys, NEW b \in Buckets, NEW amount \in AdjustAmounts,
               BeginAdjust(p, k, b, amount)
        PROVE  CallShape'
    BY <2>5 DEF BeginAdjust, Begin, Ask, TypeOK, CallShape
  <2>6. QED
    BY <1>1, <2>1, <2>2, <2>3, <2>4, <2>5 DEF Request
<1>2. ASSUME NEW p \in Clients, Statement(p) PROVE CallShape'
  <2> p \in Procs
    BY DEF Procs
  <2>1. CASE LockTotals(p)
    BY <2>1 DEF LockTotals, GoTo, TypeOK, CallShape
  <2>2. ASSUME NEW r \in ResKeys, LockStale(p, r) PROVE CallShape'
    BY <2>2 DEF LockStale, CallShape
  <2>3. CASE Decide(p)
    BY <2>3 DEF Decide, GoTo, TypeOK, CallShape, Call
  <2>4. CASE LockRow(p)
    BY <2>4 DEF LockRow, AtFreeRow, GoTo, TypeOK, CallShape, Call
  <2>5. CASE InsertEvent(p)
    BY <2>5 DEF InsertEvent, GoTo, TypeOK, CallShape
  <2>6. CASE Finish(p)
    BY <2>6, FinishShape
  <2>7. QED
    BY <1>2, <2>1, <2>2, <2>3, <2>4, <2>5, <2>6
    DEF Statement, ReserveDenied, ReserveReplayed, Reserve, ChargeDenied, ChargeReplayed,
        Charge, FoundTerminal, InsertReplayed, FoldCommit, FoldExpired, FoldAdjust
<1>3. ASSUME NEW p \in Sweepers, Sweep(p) PROVE CallShape'
  <2> p \in Procs
    BY DEF Procs
  <2>1. ASSUME NEW S \in SUBSET ResKeys, SweepRows(p, S) PROVE CallShape'
    BY <2>1 DEF SweepRows, Begin, Ask, TypeOK, CallShape
  <2>2. ASSUME NEW b \in Buckets, SweepTotals(p, b) PROVE CallShape'
    BY <2>2 DEF SweepTotals, CallShape
  <2>3. CASE SweepCommit(p)
    BY <2>3, FinishShape DEF SweepCommit
  <2>4. QED
    BY <1>3, <2>1, <2>2, <2>3 DEF Sweep, SweepStart
<1>4. ASSUME NEW p \in Procs, Abort(p) PROVE CallShape'
  BY <1>4, FinishShape DEF Abort
<1>5. CASE Tick
  BY <1>5 DEF Tick, CallShape
<1>6. CASE UNCHANGED vars
  BY <1>6 DEF vars, CallShape
<1>7. QED
  BY <1>1, <1>2, <1>3, <1>4, <1>5, <1>6 DEF Next

LEMMA TypeInit == Init => TypeOK /\ CallShape
BY CallType, UsageAssumption
   DEF Init, TypeOK, CallShape, UsageAssumption, Absent, NoEvent, Reservation, Event

(* Every table, lock and request keeps its type, whatever transactions are  *)
(* interleaved, rolled back or swept.                                       *)
THEOREM TypeCorrect == Spec => [](TypeOK /\ CallShape)
<1>1. Init => TypeOK /\ CallShape
  BY TypeInit
<1>2. TypeOK /\ CallShape /\ [Next]_vars => (TypeOK /\ CallShape)'
  BY TypeStep, ShapeStep
<1>3. QED
  BY <1>1, <1>2, PTL DEF Spec
------------------------------------------------------------------------------
(* What the locks protect.  A locked row is pending and stays so until its  *)
(* holder commits; an inserted key has no committed event; a process past   *)
(* its waits holds what it is about to write.                               *)
RowsLocked(p) ==
    \A r \in ResKeys : rowLock[r] = p =>
        /\ reservations[r].status = "pending"
        /\ \/ pc[p] \in {"expire", "decided"} /\ r \in Stale(p)
           \/ /\ pc[p] \in {"insert", "fold"}
              /\ call[p].op \in {"commit", "release"}
              /\ r = call[p].res
           \/ pc[p] = "fold" /\ call[p].op = "sweep"

KeysLocked(p) ==
    \A k \in EventKeys : keyLock[k] = p =>
        /\ usage_events[k].kind = "none"
        /\ pc[p] = "fold" /\ call[p].op \in {"commit", "adjust"} /\ call[p].key = k

HoldsNeeded(p) ==
    /\ pc[p] \in {"insert", "fold"} /\ call[p].op \in {"commit", "release"} =>
          rowLock[call[p].res] = p
    /\ pc[p] = "fold" /\ (call[p].op = "adjust" \/ (call[p].op = "commit" /\ call[p].outcome = "committed")) =>
          keyLock[call[p].key] = p
    /\ pc[p] = "decided" => \A r \in Stale(p) : rowLock[r] = p
    /\ pc[p] \in {"expire", "decided"} => totLock[call[p].bucket] = p
    /\ call[p].start <= clock

LockInv == \A p \in Procs : RowsLocked(p) /\ KeysLocked(p) /\ HoldsNeeded(p)

(* A transaction that ends having written only rows and keys it holds, free *)
(* keys and new reservations disturbs nobody's locks.                       *)
LEMMA FinishLocks ==
    ASSUME TypeOK, CallShape, LockInv, NEW p \in Procs, Finish(p),
           \A r \in ResKeys : \/ reservations'[r] = reservations[r]
                              \/ rowLock[r] = p /\ reservations'[r].status # "pending"
                              \/ /\ reservations[r].status = "absent"
                                 /\ reservations'[r].expires_at = Deadline,
           \A k \in EventKeys : \/ usage_events'[k] = usage_events[k]
                                \/ keyLock[k] \in {p, None}
    PROVE  LockInv'
<1>1. /\ pc'[p] = "idle" /\ call'[p] = NoCall /\ clock' = clock
      /\ \A q \in Procs : q # p => pc'[q] = pc[q] /\ call'[q] = call[q]
      /\ \A q \in Procs, r \in ResKeys : rowLock'[r] = q <=> rowLock[r] = q /\ q # p
      /\ \A q \in Procs, k \in EventKeys : keyLock'[k] = q <=> keyLock[k] = q /\ q # p
      /\ \A q \in Procs, b \in Buckets : totLock'[b] = q <=> totLock[b] = q /\ q # p
  BY UsageAssumption DEF UsageAssumption, Finish, Unlocked, TypeOK
<1>2. (RowsLocked(p) /\ KeysLocked(p) /\ HoldsNeeded(p))'
  BY <1>1 DEF RowsLocked, KeysLocked, HoldsNeeded, NoCall, Ask, TypeOK
<1>3. ASSUME NEW q \in Procs, q # p
      PROVE  (RowsLocked(q) /\ KeysLocked(q) /\ HoldsNeeded(q))'
  <2>1. \A r \in ResKeys : rowLock[r] = q => reservations'[r] = reservations[r]
    BY <1>3 DEF LockInv, RowsLocked
  <2>2. \A k \in EventKeys : keyLock[k] = q => usage_events'[k] = usage_events[k]
    BY UsageAssumption, <1>3 DEF UsageAssumption
  <2>3. call[q].start <= clock /\ call[q].start \in Nat
    BY DEF LockInv, HoldsNeeded, TypeOK, Call
  <2>4. \A r \in ResKeys : r \in Stale(q)' => r \in Stale(q)
    BY UsageAssumption, <1>1, <1>3, <2>3 DEF UsageAssumption, Stale, Overdue, Deadline, TypeOK
  <2>5. \A r \in ResKeys : rowLock[r] = q => (r \in Stale(q)' <=> r \in Stale(q))
    BY <1>1, <1>3, <2>1 DEF Stale, Overdue
  <2>6. RowsLocked(q)'
    BY <1>1, <1>3, <2>1, <2>5 DEF LockInv, RowsLocked
  <2>7. KeysLocked(q)'
    BY <1>1, <1>3, <2>2 DEF LockInv, KeysLocked
  <2>8. HoldsNeeded(q)'
    <3>1. pc[q] = "decided" => \A r \in Stale(q)' : rowLock'[r] = q
      BY <1>1, <1>3, <2>4 DEF LockInv, HoldsNeeded, Stale, Overdue
    <3>2. pc[q] \in {"insert", "fold"} /\ call[q].op \in {"commit", "release"} =>
             rowLock'[call[q].res] = q
      BY <1>1, <1>3 DEF LockInv, HoldsNeeded, CallShape
    <3>3. pc[q] = "fold" /\ (call[q].op = "adjust" \/ (call[q].op = "commit" /\ call[q].outcome = "committed")) =>
             keyLock'[call[q].key] = q
      BY <1>1, <1>3 DEF LockInv, HoldsNeeded, CallShape
    <3>4. pc[q] \in {"expire", "decided"} => totLock'[call[q].bucket] = q
      BY <1>1, <1>3 DEF LockInv, HoldsNeeded, CallShape
    <3>5. QED
      BY <1>1, <1>3, <2>3, <3>1, <3>2, <3>3, <3>4 DEF HoldsNeeded
  <2>9. QED
    BY <2>6, <2>7, <2>8
<1>4. QED
  BY <1>2, <1>3 DEF LockInv

(* What the ends of transactions do to the tables. *)
LEMMA ExpireOnlyRows ==
    ASSUME TypeOK, CallShape, LockInv, NEW p \in Procs, pc[p] = "decided",
           reservations' = Settled(Stale(p), "expired")
    PROVE  \A r \in ResKeys : \/ reservations'[r] = reservations[r]
                              \/ rowLock[r] = p /\ reservations'[r].status # "pending"
BY DEF LockInv, HoldsNeeded, Settled, TypeOK, Reservation

LEMMA EndRows ==
    ASSUME TypeOK, CallShape, LockInv, NEW p \in Procs,
           \/ ReserveDenied(p) \/ ReserveReplayed(p) \/ Reserve(p)
           \/ ChargeDenied(p) \/ ChargeReplayed(p) \/ Charge(p)
           \/ FoundTerminal(p) \/ InsertReplayed(p)
           \/ FoldCommit(p) \/ FoldExpired(p) \/ FoldAdjust(p)
           \/ SweepCommit(p) \/ Abort(p)
    PROVE  /\ Finish(p)
           /\ \A r \in ResKeys : \/ reservations'[r] = reservations[r]
                                 \/ rowLock[r] = p /\ reservations'[r].status # "pending"
                                 \/ /\ reservations[r].status = "absent"
                                    /\ reservations'[r].expires_at = Deadline
           /\ \A k \in EventKeys : \/ usage_events'[k] = usage_events[k]
                                   \/ keyLock[k] \in {p, None}
<1>1. CASE ReserveDenied(p) \/ ReserveReplayed(p) \/ ChargeDenied(p) \/ ChargeReplayed(p)
  <2>1. reservations' = Settled(Stale(p), "expired") /\ usage_events' = usage_events
    BY <1>1 DEF ReserveDenied, ReserveReplayed, ChargeDenied, ChargeReplayed, ExpireOnly
  <2>2. pc[p] = "decided" /\ Finish(p)
    BY <1>1 DEF ReserveDenied, ReserveReplayed, ChargeDenied, ChargeReplayed, Decided
  <2>3. QED
    BY <2>1, <2>2, ExpireOnlyRows
<1>2. CASE Reserve(p)
  <2>1. /\ pc[p] = "decided" /\ call[p].res \in ResKeys /\ Finish(p)
        /\ reservations[call[p].res].status = "absent" /\ usage_events' = usage_events
    BY <1>2 DEF Reserve, Decided, CallShape
  <2>2. \A r \in ResKeys : r \in Stale(p) => rowLock[r] = p
    BY <2>1 DEF LockInv, HoldsNeeded
  <2>3. \A r \in ResKeys : \/ reservations'[r] = reservations[r]
                           \/ rowLock[r] = p /\ reservations'[r].status # "pending"
                           \/ /\ reservations[r].status = "absent"
                              /\ reservations'[r].expires_at = Deadline
    BY <1>2, <2>1, <2>2 DEF Reserve, Settled, TypeOK, Reservation
  <2>4. QED
    BY <2>1, <2>3
<1>3. CASE Charge(p)
  <2>1. pc[p] = "decided" /\ call[p].key \in EventKeys /\ keyLock[call[p].key] = None
    BY <1>3 DEF Charge, Decided, CallShape
  <2>2. \A k \in EventKeys : usage_events'[k] = usage_events[k] \/ keyLock[k] \in {p, None}
    BY <1>3, <2>1 DEF Charge, TypeOK
  <2>3. reservations' = Settled(Stale(p), "expired") /\ Finish(p)
    BY <1>3 DEF Charge
  <2>4. QED
    BY <2>1, <2>2, <2>3, ExpireOnlyRows
<1>4. CASE FoundTerminal(p) \/ InsertReplayed(p) \/ Abort(p)
  BY <1>4 DEF FoundTerminal, InsertReplayed, Abort, tables
<1>5. CASE FoldCommit(p) \/ FoldExpired(p)
  <2>1. /\ pc[p] = "fold" /\ call[p].op \in {"commit", "release"} /\ Finish(p)
        /\ call[p].res \in ResKeys /\ call[p].outcome \in Terminal
        /\ reservations' = Settled({call[p].res}, call[p].outcome)
    BY <1>5 DEF FoldCommit, FoldExpired, AtFreeTotals, CallShape, Terminal
  <2>2. rowLock[call[p].res] = p
    BY <2>1 DEF LockInv, HoldsNeeded
  <2>3. \A r \in ResKeys : \/ reservations'[r] = reservations[r]
                           \/ rowLock[r] = p /\ reservations'[r].status # "pending"
    BY <2>1, <2>2 DEF Settled, TypeOK, Reservation, Terminal
  <2>4. \A k \in EventKeys : usage_events'[k] = usage_events[k] \/ keyLock[k] \in {p, None}
    BY <1>5 DEF FoldCommit, FoldExpired, AtFreeTotals, LockInv, HoldsNeeded, TypeOK
  <2>5. QED
    BY <2>1, <2>3, <2>4
<1>6. CASE FoldAdjust(p)
  <2>1. \A k \in EventKeys : usage_events'[k] = usage_events[k] \/ keyLock[k] \in {p, None}
    BY <1>6 DEF FoldAdjust, AtFreeTotals, LockInv, HoldsNeeded, TypeOK
  <2>2. QED
    BY <1>6, <2>1 DEF FoldAdjust
<1>7. CASE SweepCommit(p)
  <2>1. \A r \in ResKeys : \/ reservations'[r] = reservations[r]
                           \/ rowLock[r] = p /\ reservations'[r].status # "pending"
    BY <1>7 DEF SweepCommit, Settled, LockedRows, TypeOK, Reservation
  <2>2. QED
    BY <1>7, <2>1 DEF SweepCommit
<1>8. QED
  BY <1>1, <1>2, <1>3, <1>4, <1>5, <1>6, <1>7

LEMMA EndLocks ==
    ASSUME TypeOK, CallShape, LockInv, NEW p \in Procs,
           \/ ReserveDenied(p) \/ ReserveReplayed(p) \/ Reserve(p)
           \/ ChargeDenied(p) \/ ChargeReplayed(p) \/ Charge(p)
           \/ FoundTerminal(p) \/ InsertReplayed(p)
           \/ FoldCommit(p) \/ FoldExpired(p) \/ FoldAdjust(p)
           \/ SweepCommit(p) \/ Abort(p)
    PROVE  LockInv'
<1>1. /\ Finish(p)
      /\ \A r \in ResKeys : \/ reservations'[r] = reservations[r]
                            \/ rowLock[r] = p /\ reservations'[r].status # "pending"
                            \/ /\ reservations[r].status = "absent"
                               /\ reservations'[r].expires_at = Deadline
      /\ \A k \in EventKeys : \/ usage_events'[k] = usage_events[k]
                              \/ keyLock[k] \in {p, None}
  BY EndRows
<1>2. QED
  BY <1>1, FinishLocks

(* A transaction that moves to its next statement writes no table. *)
LEMMA LockStep == TypeOK /\ CallShape /\ LockInv /\ [Next]_vars => LockInv'
<1> SUFFICES ASSUME TypeOK, CallShape, LockInv, [Next]_vars PROVE LockInv'
  OBVIOUS
<1> USE DEF RowsLocked, KeysLocked, HoldsNeeded, Stale, Overdue
<1>1. ASSUME NEW p \in Clients, Request(p) PROVE LockInv'
  <2>1. PICK where \in {"totals", "row", "insert"}, request \in Call :
            /\ Begin(p, where, request) /\ UNCHANGED <<tables, locks, clock>>
            /\ request.start \in {0, clock}
            /\ request.op = "adjust" \/ where # "insert"
    <3>1. ASSUME NEW b \in Buckets, NEW amount \in Amounts, NEW limit \in Limits,
                 NEW r \in ResKeys, BeginReserve(p, r, b, amount, limit)
          PROVE  Ask("reserve", r, None, b, amount, limit, clock) \in Call
      BY UsageAssumption DEF UsageAssumption, Ask, Call, TypeOK, Amounts
    <3>2. ASSUME NEW b \in Buckets, NEW amount \in Amounts, NEW limit \in Limits,
                 NEW k \in EventKeys, BeginCharge(p, k, b, amount, limit)
          PROVE  Ask("charge", None, k, b, amount, limit, clock) \in Call
      BY UsageAssumption DEF UsageAssumption, Ask, Call, TypeOK, Amounts
    <3>3. ASSUME NEW r \in ResKeys, NEW k \in EventKeys, NEW limit \in Limits
          PROVE  Ask("commit", r, k, None, 0, limit, 0) \in Call
      BY UsageAssumption DEF UsageAssumption, Ask, Call, TypeOK
    <3>4. ASSUME NEW r \in ResKeys
          PROVE  Ask("release", r, None, None, 0, Unlimited, 0) \in Call
      BY UsageAssumption DEF UsageAssumption, Ask, Call, TypeOK
    <3>5. ASSUME NEW k \in EventKeys, NEW b \in Buckets, NEW amount \in AdjustAmounts
          PROVE  Ask("adjust", None, k, b, amount, Unlimited, 0) \in Call
      BY UsageAssumption DEF UsageAssumption, Ask, Call, TypeOK
    <3>6. QED
      BY <1>1, <3>1, <3>2, <3>3, <3>4, <3>5
      DEF Request, BeginReserve, BeginCharge, BeginCommit, BeginRelease, BeginAdjust, Ask
  <2>2. p \in Procs /\ pc[p] = "idle"
    BY <2>1 DEF Begin, Procs
  <2>3. QED
    BY <2>1, <2>2 DEF Begin, LockInv, TypeOK, tables, locks
<1>2. ASSUME NEW p \in Clients, Statement(p) PROVE LockInv'
  <2> p \in Procs
    BY DEF Procs
  <2>1. CASE LockTotals(p)
    BY UsageAssumption, <2>1 DEF UsageAssumption, LockTotals, FreeTotals, GoTo, LockInv,
       CallShape, TypeOK, tables
  <2>2. ASSUME NEW r \in ResKeys, LockStale(p, r) PROVE LockInv'
    BY UsageAssumption, <2>2 DEF UsageAssumption, LockStale, LockInv, TypeOK, tables
  <2>3. CASE Decide(p)
    BY <2>3 DEF Decide, GoTo, LockInv, TypeOK, tables, locks, Call
  <2>4. CASE LockRow(p)
    BY UsageAssumption, <2>4 DEF UsageAssumption, LockRow, AtFreeRow, GoTo, LockInv,
       CallShape, TypeOK, tables, Call
  <2>5. CASE InsertEvent(p)
    BY UsageAssumption, <2>5 DEF UsageAssumption, InsertEvent, GoTo, LockInv, CallShape,
       TypeOK, tables
  <2>6. QED
    BY <1>2, <2>1, <2>2, <2>3, <2>4, <2>5, EndLocks DEF Statement
<1>3. ASSUME NEW p \in Sweepers, Sweep(p) PROVE LockInv'
  <2> p \in Procs
    BY DEF Procs
  <2>1. ASSUME NEW S \in SUBSET ResKeys, SweepRows(p, S) PROVE LockInv'
    <3>1. /\ pc[p] = "idle" /\ pc'[p] = "fold" /\ call'[p].op = "sweep" /\ call'[p].start = 0
          /\ \A q \in Procs : q # p => pc'[q] = pc[q] /\ call'[q] = call[q]
          /\ UNCHANGED <<tables, keyLock, totLock, clock>>
      BY <2>1 DEF SweepRows, Begin, Ask, TypeOK
    <3>2. /\ \A r \in ResKeys : rowLock[r] # None => rowLock'[r] = rowLock[r]
          /\ \A r \in ResKeys : rowLock'[r] # rowLock[r] =>
                 rowLock'[r] = p /\ reservations[r].status = "pending"
      BY <2>1 DEF SweepRows, TypeOK
    <3>3. (RowsLocked(p) /\ KeysLocked(p) /\ HoldsNeeded(p))'
      BY UsageAssumption, <3>1, <3>2 DEF UsageAssumption, LockInv, TypeOK, tables
    <3>4. ASSUME NEW q \in Procs, q # p
          PROVE  (RowsLocked(q) /\ KeysLocked(q) /\ HoldsNeeded(q))'
      BY UsageAssumption, <3>1, <3>2, <3>4 DEF UsageAssumption, LockInv, CallShape, TypeOK, tables
    <3>5. QED
      BY <3>3, <3>4 DEF LockInv
  <2>2. ASSUME NEW b \in Buckets, SweepTotals(p, b) PROVE LockInv'
    <3>1. /\ UNCHANGED <<tables, rowLock, keyLock, pc, call, clock>>
          /\ pc[p] = "fold" /\ totLock[b] = None /\ totLock' = [totLock EXCEPT ![b] = p]
      BY <2>2 DEF SweepTotals, FreeTotals
    <3>2. \A q \in Procs : pc[q] \in {"expire", "decided"} => totLock'[call[q].bucket] = q
      BY UsageAssumption, <3>1 DEF UsageAssumption, LockInv, CallShape, TypeOK
    <3>3. QED
      BY <3>1, <3>2 DEF LockInv, tables
  <2>3. QED
    BY <1>3, <2>1, <2>2, EndLocks DEF Sweep, SweepStart
<1>4. ASSUME NEW p \in Procs, Abort(p) PROVE LockInv'
  BY <1>4, EndLocks
<1>5. CASE Tick
  <2>1. \A p \in Procs : call[p].start \in Nat /\ clock \in Nat
    BY DEF TypeOK, Call
  <2>2. QED
    BY <1>5, <2>1 DEF Tick, LockInv, tables, locks
<1>6. CASE UNCHANGED vars
  BY <1>6 DEF vars, tables, locks, LockInv
<1>7. QED
  BY <1>1, <1>2, <1>3, <1>4, <1>5, <1>6 DEF Next
------------------------------------------------------------------------------
(* Reservations and the events that charge for them correspond one to one. *)
Charges ==
    /\ \A k \in EventKeys : usage_events[k].kind = "none" => usage_events[k].reservation = None
    /\ \A k \in EventKeys, r \in ResKeys : usage_events[k].reservation = r =>
          /\ reservations[r].status = "committed"
          /\ usage_events[k].amount = reservations[r].amount
          /\ usage_events[k].bucket = reservations[r].bucket
    /\ \A r \in ResKeys : reservations[r].status = "committed" =>
          \E k \in EventKeys : usage_events[k].reservation = r
    /\ \A j, k \in EventKeys : /\ usage_events[j].reservation = usage_events[k].reservation
                              /\ usage_events[j].reservation # None
                              => j = k

(* Rows change only from absent or pending, to anything but committed, and  *)
(* new events charge for no reservation.                                    *)
LEMMA OtherCharges ==
    ASSUME TypeOK, Charges,
           \A r \in ResKeys : \/ reservations'[r] = reservations[r]
                              \/ /\ reservations[r].status \in {"absent", "pending"}
                                 /\ reservations'[r].status # "committed",
           \A k \in EventKeys : \/ usage_events'[k] = usage_events[k]
                                \/ /\ usage_events[k].kind = "none"
                                   /\ usage_events'[k].reservation = None
    PROVE  Charges'
BY UsageAssumption DEF UsageAssumption, Charges

LEMMA ChargeStep == TypeOK /\ CallShape /\ LockInv /\ Charges /\ [Next]_vars => Charges'
<1> SUFFICES ASSUME TypeOK, CallShape, LockInv, Charges, [Next]_vars PROVE Charges'
  OBVIOUS
<1>1. CASE UNCHANGED <<reservations, usage_events>>
  BY <1>1 DEF Charges
<1>2. ASSUME NEW p \in Procs,
             ReserveDenied(p) \/ ReserveReplayed(p) \/ ChargeDenied(p) \/ ChargeReplayed(p)
      PROVE  Charges'
  <2>1. reservations' = Settled(Stale(p), "expired") /\ usage_events' = usage_events
    BY <1>2 DEF ReserveDenied, ReserveReplayed, ChargeDenied, ChargeReplayed, ExpireOnly
  <2>2. QED
    BY <2>1, OtherCharges DEF Settled, Stale, Overdue, TypeOK, Reservation
<1>3. ASSUME NEW p \in Procs, Reserve(p) PROVE Charges'
  <2>1. \A r \in ResKeys : \/ reservations'[r] = reservations[r]
                           \/ /\ reservations[r].status \in {"absent", "pending"}
                              /\ reservations'[r].status # "committed"
    BY <1>3 DEF Reserve, Settled, Stale, Overdue, TypeOK, Reservation
  <2>2. QED
    BY <1>3, <2>1, OtherCharges DEF Reserve
<1>4. ASSUME NEW p \in Procs, Charge(p) PROVE Charges'
  <2>1. \A r \in ResKeys : \/ reservations'[r] = reservations[r]
                           \/ /\ reservations[r].status \in {"absent", "pending"}
                              /\ reservations'[r].status # "committed"
    BY <1>4 DEF Charge, Settled, Stale, Overdue, TypeOK, Reservation
  <2>2. \A k \in EventKeys : \/ usage_events'[k] = usage_events[k]
                             \/ /\ usage_events[k].kind = "none"
                                /\ usage_events'[k].reservation = None
    BY <1>4 DEF Charge, TypeOK
  <2>3. QED
    BY <2>1, <2>2, OtherCharges
<1>5. ASSUME NEW p \in Procs, FoldCommit(p) PROVE Charges'
  <2> DEFINE r == call[p].res
             j == call[p].key
  <2>1. pc[p] = "fold" /\ call[p].op = "commit" /\ call[p].outcome = "committed"
    BY <1>5 DEF FoldCommit, AtFreeTotals
  <2>2. /\ r \in ResKeys /\ reservations[r].status = "pending"
        /\ j \in EventKeys /\ usage_events[j].kind = "none"
    BY <2>1 DEF CallShape, LockInv, HoldsNeeded, RowsLocked, KeysLocked
  <2>3. /\ \A q \in ResKeys : q # r => reservations'[q] = reservations[q]
        /\ reservations'[r].status = "committed"
        /\ reservations'[r].amount = reservations[r].amount
        /\ reservations'[r].bucket = reservations[r].bucket
    BY <1>5, <2>2 DEF FoldCommit, Settled, TypeOK, Reservation
  <2>4. /\ \A k \in EventKeys : k # j => usage_events'[k] = usage_events[k]
        /\ usage_events'[j] = [kind |-> "commit", bucket |-> reservations[r].bucket,
                               amount |-> reservations[r].amount, reservation |-> r]
    BY <1>5, <2>1, <2>2 DEF FoldCommit, BucketOf, TypeOK
  <2>5. \A k \in EventKeys : usage_events[k].reservation # r
    BY <2>2 DEF Charges
  <2> HIDE DEF r, j
  <2>6. \A k \in EventKeys : usage_events'[k].kind = "none" => usage_events'[k].reservation = None
    BY <2>4 DEF Charges
  <2>7. \A k \in EventKeys, q \in ResKeys : usage_events'[k].reservation = q =>
           /\ reservations'[q].status = "committed"
           /\ usage_events'[k].amount = reservations'[q].amount
           /\ usage_events'[k].bucket = reservations'[q].bucket
    BY <2>2, <2>3, <2>4, <2>5 DEF Charges
  <2>8. \A q \in ResKeys : reservations'[q].status = "committed" =>
           \E k \in EventKeys : usage_events'[k].reservation = q
    <3> SUFFICES ASSUME NEW q \in ResKeys, reservations'[q].status = "committed"
                 PROVE  \E k \in EventKeys : usage_events'[k].reservation = q
      OBVIOUS
    <3>1. CASE q = r
      BY <2>2, <2>4, <3>1
    <3>2. CASE q # r
      <4>1. PICK k \in EventKeys : usage_events[k].reservation = q
        BY <2>3, <3>2 DEF Charges
      <4>2. k # j
        BY UsageAssumption, <2>2, <4>1 DEF UsageAssumption, Charges
      <4>3. QED
        BY <2>4, <4>1, <4>2
    <3>3. QED
      BY <3>1, <3>2
  <2>9. \A i, k \in EventKeys : /\ usage_events'[i].reservation = usage_events'[k].reservation
                                /\ usage_events'[i].reservation # None
                                => i = k
    BY <2>4, <2>5 DEF Charges
  <2>10. QED
    BY <2>6, <2>7, <2>8, <2>9 DEF Charges
<1>6. ASSUME NEW p \in Procs, FoldExpired(p) PROVE Charges'
  <2>1. /\ pc[p] = "fold" /\ call[p].op \in {"commit", "release"} /\ call[p].res \in ResKeys
        /\ call[p].outcome \in {"expired", "released"}
        /\ reservations' = Settled({call[p].res}, call[p].outcome) /\ usage_events' = usage_events
    BY <1>6 DEF FoldExpired, AtFreeTotals, CallShape
  <2>2. reservations[call[p].res].status = "pending"
    BY <2>1 DEF LockInv, HoldsNeeded, RowsLocked
  <2>3. QED
    BY <2>1, <2>2, OtherCharges DEF Settled, TypeOK, Reservation
<1>7. ASSUME NEW p \in Procs, FoldAdjust(p) PROVE Charges'
  <2>1. \A k \in EventKeys : \/ usage_events'[k] = usage_events[k]
                             \/ /\ usage_events[k].kind = "none"
                                /\ usage_events'[k].reservation = None
    BY <1>7 DEF FoldAdjust, AtFreeTotals, LockInv, HoldsNeeded, KeysLocked, CallShape, TypeOK
  <2>2. QED
    BY <1>7, <2>1, OtherCharges DEF FoldAdjust
<1>8. ASSUME NEW p \in Procs, SweepCommit(p) PROVE Charges'
  <2>1. \A r \in LockedRows(p) : reservations[r].status = "pending"
    BY DEF LockedRows, LockInv, RowsLocked
  <2>2. QED
    BY <1>8, <2>1, OtherCharges DEF SweepCommit, Settled, TypeOK, Reservation
<1>9. QED
  BY <1>1, <1>2, <1>3, <1>4, <1>5, <1>6, <1>7, <1>8
  DEF Next, Request, BeginReserve, BeginCharge, BeginCommit, BeginRelease, BeginAdjust,
      Statement, LockTotals, LockStale, Decide, FoundTerminal, LockRow, InsertReplayed,
      InsertEvent, Sweep, SweepStart, SweepRows, SweepTotals, Abort, Tick, Procs, vars, tables

LEMMA LockInit == Init => LockInv /\ Charges
BY UsageAssumption DEF UsageAssumption, Init, LockInv, RowsLocked, KeysLocked, HoldsNeeded,
   Charges, Absent, NoEvent, NoCall, Ask, Procs

LEMMA ChargesCounted == TypeOK /\ Charges => CommittedIffCharged
<1> SUFFICES ASSUME TypeOK, Charges, NEW r \in ResKeys
             PROVE  /\ Cardinality(ChargesFor(r)) =
                          IF reservations[r].status = "committed" THEN 1 ELSE 0
                    /\ \A k \in ChargesFor(r) :
                          /\ usage_events[k].amount = reservations[r].amount
                          /\ usage_events[k].bucket = reservations[r].bucket
  BY DEF CommittedIffCharged
<1>1. CASE reservations[r].status = "committed"
  <2>1. PICK k \in EventKeys : usage_events[k].reservation = r
    BY <1>1 DEF Charges
  <2>2. ChargesFor(r) = {k}
    BY <2>1, UsageAssumption DEF UsageAssumption, Charges, ChargesFor
  <2>3. QED
    BY <1>1, <2>2, FS_Singleton DEF Charges, ChargesFor
<1>2. CASE reservations[r].status # "committed"
  <2>1. ChargesFor(r) = {}
    BY <1>2 DEF Charges, ChargesFor
  <2>2. QED
    BY <1>2, <2>1, FS_EmptySet
<1>3. QED
  BY <1>1, <1>2

(* Retries, replays, racing sweeps and rollbacks never charge a reservation *)
(* twice, charge for one that was released or expired, or commit one        *)
(* without its event.                                                       *)
THEOREM ChargedExactlyOnce == Spec => []CommittedIffCharged
<1> DEFINE IInv == TypeOK /\ CallShape /\ LockInv /\ Charges
<1>1. Init => IInv
  BY TypeInit, LockInit
<1>2. IInv /\ [Next]_vars => IInv'
  BY TypeStep, ShapeStep, LockStep, ChargeStep
<1>3. IInv => CommittedIffCharged
  BY ChargesCounted
<1>4. QED
  BY <1>1, <1>2, <1>3, PTL DEF Spec
------------------------------------------------------------------------------
(* Sums as numbers of units: f gives each row of S its amount, and the rows *)
(* with a positive amount have that many units.                             *)
Units(S, f) == {u \in S \X Amounts : u[2] <= f[u[1]]}

LEMMA UnitsCount ==
    ASSUME NEW S, NEW f, IsFiniteSet(S)
    PROVE  IsFiniteSet(Units(S, f)) /\ Cardinality(Units(S, f)) \in Nat
<1>1. IsFiniteSet(S \X Amounts)
  <2>1. IsFiniteSet(Amounts)
    BY FS_Interval, UsageAssumption DEF UsageAssumption, Amounts
  <2>2. QED
    BY <2>1, FS_Product
<1>2. IsFiniteSet(Units(S, f))
  BY <1>1, FS_Subset DEF Units
<1>3. QED
  BY <1>2, FS_CardinalityType

(* One row has as many units as its amount says. *)
LEMMA UnitsOne ==
    ASSUME NEW x, NEW f, f[x] \in (-MaxAmount)..MaxAmount
    PROVE  Cardinality(Units({x}, f)) = IF f[x] > 0 THEN f[x] ELSE 0
<1> DEFINE n == f[x]
<1>0. n \in Int /\ n <= MaxAmount /\ MaxAmount \in Nat
  BY UsageAssumption DEF UsageAssumption
<1>1. Units({x}, f) = {x} \X (1..n)
  <2>1. \A u \in {x} \X Amounts : u[2] <= f[u[1]] <=> u[2] <= n
    OBVIOUS
  <2>2. 1..n \subseteq Amounts
    BY <1>0 DEF Amounts
  <2>3. \A u \in {x} \X Amounts : u[2] <= n <=> u[2] \in 1..n
    BY <1>0 DEF Amounts
  <2>4. Units({x}, f) = {u \in {x} \X Amounts : u[2] \in 1..n}
    BY <2>1, <2>3 DEF Units
  <2> HIDE DEF n
  <2>5. QED
    BY <2>2, <2>4
<1> HIDE DEF n
<1>2. /\ IsFiniteSet({x}) /\ Cardinality({x}) = 1
      /\ IsFiniteSet(1..n) /\ Cardinality(1..n) = IF n > 0 THEN n ELSE 0
  <2>1. IsFiniteSet({x}) /\ Cardinality({x}) = 1
    BY FS_Singleton, Zenon
  <2>2. IsFiniteSet(1..n) /\ Cardinality(1..n) = IF 1 > n THEN 0 ELSE n - 1 + 1
    <3>1. 1 \in Int /\ n \in Int
      BY <1>0
    <3> HIDE DEF n
    <3>2. QED
      BY <3>1, FS_Interval, Zenon
  <2>3. QED
    BY <1>0, <2>1, <2>2
<1>3. Cardinality({x} \X (1..n)) = Cardinality({x}) * Cardinality(1..n)
  BY <1>2, FS_Product
<1>4. Cardinality(Units({x}, f)) = IF n > 0 THEN n ELSE 0
  <2>1. Cardinality(1..n) \in Int
    BY <1>0, <1>2
  <2>2. \A c \in Int : 1 * c = c
    OBVIOUS
  <2>3. Cardinality({x} \X (1..n)) = Cardinality(1..n)
    BY <1>2, <1>3, <2>1, <2>2
  <2>4. QED
    BY <1>1, <1>2, <2>3
<1>5. QED
  BY <1>4 DEF n

(* The units of two sets of rows with nothing in common add up. *)
LEMMA UnitsSplit ==
    ASSUME NEW S, NEW T, NEW f, IsFiniteSet(S), IsFiniteSet(T), S \cap T = {}
    PROVE  Cardinality(Units(S \cup T, f)) = Cardinality(Units(S, f)) + Cardinality(Units(T, f))
<1>1. Units(S \cup T, f) = Units(S, f) \cup Units(T, f)
  BY DEF Units
<1>2. Units(S, f) \cap Units(T, f) = {}
  BY DEF Units
<1>3. /\ IsFiniteSet(Units(S, f)) /\ Cardinality(Units(S, f)) \in Nat
      /\ IsFiniteSet(Units(T, f)) /\ Cardinality(Units(T, f)) \in Nat
  BY UnitsCount
<1>4. Cardinality(Units(S, f) \cup Units(T, f))
        = Cardinality(Units(S, f)) + Cardinality(Units(T, f)) - Cardinality({})
  BY <1>2, <1>3, FS_Union
<1>5. Cardinality({}) = 0
  BY FS_EmptySet
<1>6. \A a, c \in Nat : a + c - 0 = a + c
  OBVIOUS
<1>7. Cardinality(Units(S, f)) + Cardinality(Units(T, f)) - Cardinality({})
         = Cardinality(Units(S, f)) + Cardinality(Units(T, f))
  BY <1>3, <1>5, <1>6, Zenon
<1>8. QED
  BY <1>1, <1>4, <1>7, Zenon

LEMMA UnitsSame ==
    ASSUME NEW S, NEW f, NEW g, \A x \in S : f[x] = g[x]
    PROVE  Units(S, f) = Units(S, g)
BY DEF Units

AmountOf == [r \in ResKeys |-> reservations[r].amount]
Signed(sign) == [k \in EventKeys |-> sign * usage_events[k].amount]
EventsOf(b) == {k \in EventKeys : usage_events[k].bucket = b}
Adjustments(b) == {k \in EventsOf(b) : usage_events[k].kind = "adjustment"}

LEMMA KeysFinite ==
    \A S : S \subseteq ResKeys \/ S \subseteq EventKeys => IsFiniteSet(S)
BY FS_Subset, UsageAssumption DEF UsageAssumption

(* The sums of UsageLedger are such sums. *)
SumsAsUnits ==
    /\ \A S \in SUBSET ResKeys : UnitsOf(S) = Units(S, AmountOf)
    /\ \A b \in Buckets :
          /\ Held(b) = Cardinality(Units(Pending(b), AmountOf))
          /\ Charged(b) = Cardinality(Units(EventsOf(b), Signed(1)))
                            - Cardinality(Units(EventsOf(b), Signed(-1)))
          /\ Granted(b) = Cardinality(Units(Adjustments(b), Signed(1)))

LEMMA SumsAreUnits == TypeOK => SumsAsUnits
<1> SUFFICES ASSUME TypeOK PROVE SumsAsUnits
  OBVIOUS
<1>1. \A S \in SUBSET ResKeys : UnitsOf(S) = Units(S, AmountOf)
  BY DEF UnitsOf, Units, AmountOf
<1>2. ASSUME NEW b \in Buckets
      PROVE  /\ Held(b) = Cardinality(Units(Pending(b), AmountOf))
             /\ Charged(b) = Cardinality(Units(EventsOf(b), Signed(1)))
                               - Cardinality(Units(EventsOf(b), Signed(-1)))
             /\ Granted(b) = Cardinality(Units(Adjustments(b), Signed(1)))
  <2>1. Pending(b) \in SUBSET ResKeys
    BY DEF Pending
  <2>2. ASSUME NEW sign
        PROVE  {u \in EventKeys \X Amounts : /\ usage_events[u[1]].bucket = b
                                            /\ u[2] <= sign * usage_events[u[1]].amount}
                 = Units(EventsOf(b), Signed(sign))
    BY DEF Units, EventsOf, Signed
  <2>3. {u \in EventKeys \X Amounts : /\ usage_events[u[1]].kind = "adjustment"
                                     /\ usage_events[u[1]].bucket = b
                                     /\ u[2] <= usage_events[u[1]].amount}
          = Units(Adjustments(b), Signed(1))
    <3>1. \A k \in EventKeys : 1 * usage_events[k].amount = usage_events[k].amount
      BY DEF TypeOK, Event
    <3>2. QED
      BY <3>1 DEF Units, EventsOf, Adjustments, Signed
  <2>4. QED
    BY <1>1, <2>1, <2>2, <2>3, Zenon DEF Held, Charged, Granted
<1>3. QED
  BY <1>1, <1>2, Zenon DEF SumsAsUnits

LEMMA SumsStayUnits == TypeOK /\ TypeOK' => SumsAsUnits /\ SumsAsUnits'
BY SumsAreUnits, PTL

(* Rows that stop being pending free what they held in their bucket. *)
LEMMA HeldSettled ==
    ASSUME TypeOK, TypeOK', NEW S \in SUBSET ResKeys, NEW status \in Terminal,
           \A r \in S : reservations[r].status = "pending",
           reservations' = Settled(S, status), NEW b \in Buckets
    PROVE  /\ Held(b) \in Nat /\ Freed(S, b) \in Nat
           /\ Freed(S, b) <= Held(b)
           /\ Held(b)' = Held(b) - Freed(S, b)
<1> DEFINE T == {r \in S : reservations[r].bucket = b}
           P == Pending(b)
<1>1. /\ \A r \in ResKeys : /\ reservations'[r].amount = reservations[r].amount
                            /\ reservations'[r].bucket = reservations[r].bucket
      /\ \A r \in ResKeys : reservations'[r].status =
             IF r \in S THEN status ELSE reservations[r].status
  BY DEF Settled, TypeOK, Reservation
<1>2. Pending(b)' = P \ T
  BY <1>1 DEF Pending, Terminal
<1>3. T \subseteq P /\ P \subseteq ResKeys
  BY DEF Pending
<1>4. AmountOf' = AmountOf
  BY <1>1 DEF AmountOf
<1> HIDE DEF T, P
<1>5. /\ IsFiniteSet(T) /\ IsFiniteSet(P \ T) /\ T \cap (P \ T) = {} /\ P = T \cup (P \ T)
  BY <1>3, KeysFinite
<1>6. Cardinality(Units(P, AmountOf))
        = Cardinality(Units(T, AmountOf)) + Cardinality(Units(P \ T, AmountOf))
  <2>1. Cardinality(Units(T \cup (P \ T), AmountOf))
          = Cardinality(Units(T, AmountOf)) + Cardinality(Units(P \ T, AmountOf))
    BY <1>5, UnitsSplit
  <2>2. T \cup (P \ T) = P
    BY <1>5
  <2>3. QED
    BY <2>1, <2>2
<1>7. /\ Cardinality(Units(T, AmountOf)) \in Nat
      /\ Cardinality(Units(P \ T, AmountOf)) \in Nat
  BY <1>5, UnitsCount
<1>8. /\ Held(b) = Cardinality(Units(P, AmountOf))
      /\ Held(b)' = Cardinality(Units(P \ T, AmountOf))
      /\ Freed(S, b) = Cardinality(Units(T, AmountOf))
  BY <1>2, <1>3, <1>4, SumsStayUnits DEF SumsAsUnits, Freed, T, P
<1>9. QED
  BY <1>6, <1>7, <1>8

(* A new hold adds its amount to its bucket, after those that ran out. *)
LEMMA HeldTaken ==
    ASSUME TypeOK, TypeOK', NEW S \in SUBSET ResKeys,
           \A r \in S : reservations[r].status = "pending",
           NEW r \in ResKeys, reservations[r].status = "absent",
           NEW row \in Reservation, row.status = "pending", row.bucket \in Buckets,
           reservations' = [Settled(S, "expired") EXCEPT ![r] = row], NEW b \in Buckets
    PROVE  /\ Held(b) \in Nat /\ Freed(S, b) \in Nat
           /\ Freed(S, b) <= Held(b)
           /\ Held(b)' = Held(b) - Freed(S, b) + (IF row.bucket = b THEN row.amount ELSE 0)
<1> DEFINE T == {q \in S : reservations[q].bucket = b}
           P == Pending(b)
           Q == P \ T
<1>1. /\ \A q \in ResKeys : q # r => /\ reservations'[q].amount = reservations[q].amount
                                     /\ reservations'[q].bucket = reservations[q].bucket
                                     /\ reservations'[q].status =
                                           IF q \in S THEN "expired" ELSE reservations[q].status
      /\ reservations'[r] = row
      /\ r \notin S
  BY DEF Settled, TypeOK, Reservation
<1>2. Pending(b)' = IF row.bucket = b THEN Q \cup {r} ELSE Q
  BY <1>1 DEF Pending
<1>3. T \subseteq P /\ P \subseteq ResKeys /\ r \notin P
  BY DEF Pending
<1>4. /\ \A q \in Q : AmountOf'[q] = AmountOf[q]
      /\ AmountOf'[r] = row.amount
      /\ row.amount \in 0..MaxAmount
  BY <1>1, <1>3 DEF AmountOf, Reservation
<1>5. Q \subseteq ResKeys /\ Q \cap T = {} /\ Q \cup T = P /\ Q \cap {r} = {}
  BY <1>3
<1>6. /\ Held(b) = Cardinality(Units(P, AmountOf))
      /\ Held(b)' = Cardinality(Units(Pending(b)', AmountOf'))
      /\ Freed(S, b) = Cardinality(Units(T, AmountOf))
  BY <1>3, SumsStayUnits DEF SumsAsUnits, Freed
<1> HIDE DEF T, P, Q
<1>7. IsFiniteSet(T) /\ IsFiniteSet(Q) /\ IsFiniteSet({r})
  BY <1>3, <1>5, KeysFinite
<1>8. Cardinality(Units(P, AmountOf))
        = Cardinality(Units(Q, AmountOf)) + Cardinality(Units(T, AmountOf))
  <2>1. Cardinality(Units(Q \cup T, AmountOf))
          = Cardinality(Units(Q, AmountOf)) + Cardinality(Units(T, AmountOf))
    BY <1>5, <1>7, UnitsSplit
  <2>2. QED
    BY <1>5, <2>1
<1>9. Units(Q, AmountOf') = Units(Q, AmountOf)
  BY <1>4, UnitsSame
<1>10. Cardinality(Units(Q \cup {r}, AmountOf'))
         = Cardinality(Units(Q, AmountOf)) + row.amount
  <2>1. Cardinality(Units(Q \cup {r}, AmountOf'))
          = Cardinality(Units(Q, AmountOf')) + Cardinality(Units({r}, AmountOf'))
    BY <1>5, <1>7, UnitsSplit
  <2>2. row.amount \in Nat /\ AmountOf'[r] \in (-MaxAmount)..MaxAmount
    BY <1>4, UsageAssumption DEF UsageAssumption
  <2>3. Cardinality(Units({r}, AmountOf')) = row.amount
    <3>1. Cardinality(Units({r}, AmountOf')) = IF AmountOf'[r] > 0 THEN AmountOf'[r] ELSE 0
      BY <2>2, UnitsOne
    <3>2. QED
      BY <1>4, <2>2, <3>1
  <2>4. QED
    BY <1>9, <2>1, <2>3
<1>11. /\ Cardinality(Units(T, AmountOf)) \in Nat
       /\ Cardinality(Units(Q, AmountOf)) \in Nat
       /\ row.amount \in Nat
  BY <1>4, <1>7, UnitsCount
<1>12. CASE row.bucket = b
  <2>1. Held(b)' = Cardinality(Units(Q, AmountOf)) + row.amount
    BY <1>2, <1>6, <1>10, <1>12
  <2>2. QED
    BY <1>6, <1>8, <1>11, <1>12, <2>1
<1>13. CASE row.bucket # b
  <2>1. Held(b)' = Cardinality(Units(Q, AmountOf))
    BY <1>2, <1>6, <1>9, <1>13
  <2>2. QED
    BY <1>6, <1>8, <1>11, <1>13, <2>1
<1>14. QED
  BY <1>12, <1>13

LEMMA HeldSame ==
    ASSUME reservations' = reservations, NEW b
    PROVE  Held(b)' = Held(b)
BY DEF Held, UnitsOf, Pending

(* A new event counts for its bucket, with its sign. *)
LEMMA ChargedMore ==
    ASSUME TypeOK, TypeOK', NEW k \in EventKeys, usage_events[k] = NoEvent,
           NEW event \in Event, event.bucket \in Buckets,
           usage_events' = [usage_events EXCEPT ![k] = event], NEW b \in Buckets
    PROVE  /\ Charged(b) \in Int /\ Granted(b) \in Nat
           /\ Charged(b)' = Charged(b) + (IF event.bucket = b THEN event.amount ELSE 0)
           /\ Granted(b)' = Granted(b) + (IF /\ event.bucket = b
                                             /\ event.kind = "adjustment"
                                             /\ event.amount > 0
                                          THEN event.amount ELSE 0)
<1>1. k \notin EventsOf(b)
  BY UsageAssumption DEF UsageAssumption, EventsOf, NoEvent
<1>2. /\ EventsOf(b)' = IF event.bucket = b THEN EventsOf(b) \cup {k} ELSE EventsOf(b)
      /\ Adjustments(b)' = IF event.bucket = b /\ event.kind = "adjustment"
                           THEN Adjustments(b) \cup {k} ELSE Adjustments(b)
  BY <1>1 DEF EventsOf, Adjustments, TypeOK
<1>3. event.amount \in (-MaxAmount)..MaxAmount /\ event.amount \in Int
  BY UsageAssumption DEF UsageAssumption, Event
<1>4. ASSUME NEW sign \in {1, -1}, NEW S \in SUBSET EventsOf(b)
      PROVE  /\ Cardinality(Units(S, Signed(sign))) \in Nat
             /\ Cardinality(Units(S, Signed(sign)')) = Cardinality(Units(S, Signed(sign)))
             /\ Cardinality(Units(S \cup {k}, Signed(sign)'))
                   = Cardinality(Units(S, Signed(sign)))
                     + (IF sign * event.amount > 0 THEN sign * event.amount ELSE 0)
  <2>1. S \subseteq EventKeys /\ k \notin S /\ S \cap {k} = {}
    BY <1>1 DEF EventsOf
  <2>2. IsFiniteSet(S) /\ IsFiniteSet({k})
    BY <2>1, KeysFinite
  <2>3. \A j \in S : Signed(sign)'[j] = Signed(sign)[j]
    BY <2>1 DEF Signed, TypeOK
  <2>4. Units(S, Signed(sign)') = Units(S, Signed(sign))
    BY <2>3, UnitsSame
  <2>5. Signed(sign)'[k] = sign * event.amount
    BY DEF Signed, TypeOK
  <2>6. sign * event.amount \in (-MaxAmount)..MaxAmount
    BY <1>3, UsageAssumption DEF UsageAssumption
  <2>7. Cardinality(Units({k}, Signed(sign)'))
          = IF sign * event.amount > 0 THEN sign * event.amount ELSE 0
    BY <2>5, <2>6, UnitsOne
  <2>8. Cardinality(Units(S \cup {k}, Signed(sign)'))
          = Cardinality(Units(S, Signed(sign)')) + Cardinality(Units({k}, Signed(sign)'))
    BY <2>1, <2>2, UnitsSplit
  <2>9. Cardinality(Units(S, Signed(sign))) \in Nat
    BY <2>2, UnitsCount
  <2>10. QED
    BY <2>4, <2>7, <2>8, <2>9
<1>5. /\ EventsOf(b) \in SUBSET EventsOf(b) /\ Adjustments(b) \in SUBSET EventsOf(b)
      /\ 1 * event.amount = event.amount /\ -1 * event.amount = -event.amount
  BY <1>3 DEF Adjustments
<1>6. /\ Charged(b) = Cardinality(Units(EventsOf(b), Signed(1)))
                        - Cardinality(Units(EventsOf(b), Signed(-1)))
      /\ Granted(b) = Cardinality(Units(Adjustments(b), Signed(1)))
      /\ Charged(b)' = Cardinality(Units(EventsOf(b)', Signed(1)'))
                         - Cardinality(Units(EventsOf(b)', Signed(-1)'))
      /\ Granted(b)' = Cardinality(Units(Adjustments(b)', Signed(1)'))
  BY SumsStayUnits DEF SumsAsUnits
<1>7. Charged(b) \in Int /\ Granted(b) \in Nat
  <2>1. /\ Cardinality(Units(EventsOf(b), Signed(1))) \in Nat
        /\ Cardinality(Units(EventsOf(b), Signed(-1))) \in Nat
        /\ Cardinality(Units(Adjustments(b), Signed(1))) \in Nat
    BY <1>4, <1>5
  <2>2. QED
    BY <1>6, <2>1
<1>8. Charged(b)' = Charged(b) + (IF event.bucket = b THEN event.amount ELSE 0)
  <2> DEFINE up == Cardinality(Units(EventsOf(b), Signed(1)))
             down == Cardinality(Units(EventsOf(b), Signed(-1)))
  <2>1. up \in Nat /\ down \in Nat
    BY <1>4, <1>5
  <2>2. Cardinality(Units(EventsOf(b)', Signed(1)'))
          = up + (IF event.bucket = b /\ event.amount > 0 THEN event.amount ELSE 0)
    <3>1. /\ Cardinality(Units(EventsOf(b), Signed(1)')) = up
          /\ Cardinality(Units(EventsOf(b) \cup {k}, Signed(1)'))
               = up + (IF 1 * event.amount > 0 THEN 1 * event.amount ELSE 0)
      BY <1>4, <1>5
    <3> HIDE DEF up
    <3>2. QED
      BY <1>2, <1>5, <2>1, <3>1
  <2>3. Cardinality(Units(EventsOf(b)', Signed(-1)'))
          = down + (IF event.bucket = b /\ -event.amount > 0 THEN -event.amount ELSE 0)
    BY <1>2, <1>3, <1>4, <1>5
  <2>4. Charged(b) = up - down
    BY <1>6
  <2> HIDE DEF up, down
  <2>5. QED
    BY <1>3, <1>6, <2>1, <2>2, <2>3, <2>4
<1>9. Granted(b)' = Granted(b) + (IF /\ event.bucket = b
                                    /\ event.kind = "adjustment"
                                    /\ event.amount > 0
                                 THEN event.amount ELSE 0)
  BY <1>2, <1>3, <1>4, <1>5, <1>6
<1>10. QED
  BY <1>7, <1>8, <1>9

LEMMA ChargedSame ==
    ASSUME usage_events' = usage_events, NEW b
    PROVE  Charged(b)' = Charged(b) /\ Granted(b)' = Granted(b)
BY DEF Charged, Granted

LEMMA FreedOne ==
    ASSUME TypeOK, NEW r \in ResKeys, NEW b \in Buckets
    PROVE  Freed({r}, b) = IF reservations[r].bucket = b THEN reservations[r].amount ELSE 0
<1>1. {q \in {r} : reservations[q].bucket = b}
        = IF reservations[r].bucket = b THEN {r} ELSE {}
  OBVIOUS
<1>2. Freed({r}, b) = IF reservations[r].bucket = b
                      THEN Cardinality(Units({r}, AmountOf)) ELSE Cardinality(Units({}, AmountOf))
  BY <1>1, SumsAreUnits DEF SumsAsUnits, Freed
<1>3. Units({}, AmountOf) = {}
  BY DEF Units
<1>4. /\ AmountOf[r] = reservations[r].amount
      /\ reservations[r].amount \in Nat
      /\ AmountOf[r] \in (-MaxAmount)..MaxAmount
  BY UsageAssumption DEF UsageAssumption, AmountOf, TypeOK, Reservation
<1>5. Cardinality(Units({r}, AmountOf)) = IF AmountOf[r] > 0 THEN AmountOf[r] ELSE 0
  BY <1>4, UnitsOne
<1>6. Cardinality({}) = 0
  BY FS_EmptySet
<1>7. QED
  BY <1>2, <1>3, <1>4, <1>5, <1>6

LEMMA FreedElsewhere ==
    ASSUME NEW S \in SUBSET ResKeys, NEW b, \A r \in S : reservations[r].bucket # b
    PROVE  Freed(S, b) = 0
<1>1. UnitsOf({r \in S : reservations[r].bucket = b}) = {}
  BY DEF UnitsOf
<1>2. QED
  BY <1>1, FS_EmptySet DEF Freed

(* Rows and events that are not there yet carry nothing; the others belong  *)
(* to a bucket.                                                             *)
Blank ==
    /\ \A r \in ResKeys : reservations[r].status = "absent" => reservations[r] = Absent
    /\ \A k \in EventKeys : usage_events[k].kind = "none" => usage_events[k] = NoEvent
    /\ \A r \in ResKeys : reservations[r].status # "absent" => reservations[r].bucket \in Buckets

Totals == ReservedIsHeld /\ UsedIsLedger

LEMMA TotalsStep ==
    TypeOK /\ CallShape /\ LockInv /\ Blank /\ Totals /\ TypeOK' /\ [Next]_vars => Totals'
<1> SUFFICES ASSUME TypeOK, CallShape, LockInv, Blank, Totals, TypeOK', [Next]_vars
             PROVE  Totals'
  OBVIOUS
<1>1. CASE UNCHANGED <<reservations, usage_events, used, reserved>>
  BY <1>1, HeldSame, ChargedSame DEF Totals, ReservedIsHeld, UsedIsLedger
<1>2. \A p \in Procs : /\ Stale(p) \in SUBSET ResKeys
                       /\ \A r \in Stale(p) : /\ reservations[r].status = "pending"
                                               /\ reservations[r].bucket = call[p].bucket
  BY DEF Stale, Overdue
(* What the expiry leaves of the column is what the rows that stay hold. *)
<1>3. ASSUME NEW p \in Procs, pc[p] = "decided", reservations' = Settled(Stale(p), "expired"),
             reserved' = [reserved EXCEPT ![call[p].bucket] = ReservedNow(p)]
      PROVE  ReservedIsHeld'
  <2>1. ASSUME NEW b \in Buckets
        PROVE  /\ Held(b) \in Nat /\ Freed(Stale(p), b) \in Nat
               /\ Freed(Stale(p), b) <= Held(b)
               /\ Held(b)' = Held(b) - Freed(Stale(p), b)
    BY <1>2, <1>3, HeldSettled DEF Terminal
  <2>2. ASSUME NEW b \in Buckets, b # call[p].bucket PROVE Freed(Stale(p), b) = 0
    BY <1>2, <2>2, FreedElsewhere
  <2>3. call[p].bucket \in Buckets
    BY <1>3 DEF CallShape
  <2>4. ASSUME NEW b \in Buckets PROVE reserved'[b] = Held(b)'
    <3>1. CASE b = call[p].bucket
      BY <1>3, <2>1, <2>3, <3>1 DEF ReservedNow, Clamped, Totals, ReservedIsHeld, TypeOK
    <3>2. CASE b # call[p].bucket
      BY <1>3, <2>1, <2>2, <3>2 DEF Totals, ReservedIsHeld, TypeOK
    <3>3. QED
      BY <3>1, <3>2
  <2>5. QED
    BY <2>4 DEF ReservedIsHeld
<1>4. ASSUME NEW p \in Procs,
             ReserveDenied(p) \/ ReserveReplayed(p) \/ ChargeDenied(p) \/ ChargeReplayed(p)
      PROVE  Totals'
  <2>1. /\ pc[p] = "decided" /\ ExpireOnly(p)
    BY <1>4 DEF ReserveDenied, ReserveReplayed, ChargeDenied, ChargeReplayed, Decided
  <2>2. ReservedIsHeld'
    BY <1>3, <2>1 DEF ExpireOnly
  <2>3. UsedIsLedger'
    BY <2>1, ChargedSame DEF ExpireOnly, Totals, UsedIsLedger
  <2>4. QED
    BY <2>2, <2>3 DEF Totals
<1>5. ASSUME NEW p \in Procs, Reserve(p) PROVE Totals'
  <2> DEFINE r == call[p].res
             c == call[p].bucket
             row == [status |-> "pending", bucket |-> c, amount |-> call[p].amount,
                     expires_at |-> Deadline]
  <2>1. /\ pc[p] = "decided" /\ r \in ResKeys /\ c \in Buckets /\ call[p].amount \in Amounts
        /\ reservations[r].status = "absent"
        /\ reservations' = [Settled(Stale(p), "expired") EXCEPT ![r] = row]
        /\ reserved' = [reserved EXCEPT ![c] = ReservedNow(p) + call[p].amount]
        /\ usage_events' = usage_events /\ used' = used
    BY <1>5 DEF Reserve, Decided, CallShape
  <2>2. row \in Reservation
    BY <2>1, UsageAssumption DEF UsageAssumption, Reservation, Deadline, Amounts, TypeOK
  <2>3. row.status = "pending" /\ row.bucket = c /\ row.amount = call[p].amount
    OBVIOUS
  <2> HIDE DEF row, r, c
  <2>4. ASSUME NEW b \in Buckets
        PROVE  /\ Held(b) \in Nat /\ Freed(Stale(p), b) \in Nat
               /\ Freed(Stale(p), b) <= Held(b)
               /\ Held(b)' = Held(b) - Freed(Stale(p), b) + (IF c = b THEN row.amount ELSE 0)
    BY <1>2, <2>1, <2>2, <2>3, HeldTaken
  <2>5. ASSUME NEW b \in Buckets, b # c PROVE Freed(Stale(p), b) = 0
    BY <1>2, <2>5, FreedElsewhere DEF c
  <2>6. call[p].amount \in Nat
    BY <2>1, UsageAssumption DEF UsageAssumption, Amounts
  <2>7. ASSUME NEW b \in Buckets PROVE reserved'[b] = Held(b)'
    <3>1. CASE b = c
      <4>1. ReservedNow(p) = Held(b) - Freed(Stale(p), b)
        BY <2>4, <3>1 DEF c, ReservedNow, Clamped, Totals, ReservedIsHeld
      <4>2. QED
        BY <2>1, <2>3, <2>4, <3>1, <4>1 DEF TypeOK
    <3>2. CASE b # c
      BY <2>1, <2>4, <2>5, <3>2 DEF Totals, ReservedIsHeld, TypeOK
    <3>3. QED
      BY <3>1, <3>2
  <2>8. QED
    BY <2>1, <2>7, ChargedSame DEF Totals, ReservedIsHeld, UsedIsLedger
<1>6. ASSUME NEW p \in Procs, Charge(p) PROVE Totals'
  <2> DEFINE k == call[p].key
             event == [kind |-> "commit", bucket |-> call[p].bucket,
                       amount |-> call[p].amount, reservation |-> None]
  <2>1. /\ pc[p] = "decided" /\ k \in EventKeys /\ call[p].bucket \in Buckets
        /\ call[p].amount \in Amounts /\ usage_events[k].kind = "none"
        /\ usage_events' = [usage_events EXCEPT ![k] = event]
        /\ used' = [used EXCEPT ![call[p].bucket] = @ + call[p].amount]
    BY <1>6 DEF Charge, Decided, CallShape, WithUsed
  <2>2. ReservedIsHeld'
    BY <1>3, <1>6, <2>1 DEF Charge
  <2>3. event \in Event /\ usage_events[k] = NoEvent
    BY <2>1, UsageAssumption DEF UsageAssumption, Event, Amounts, Blank
  <2>4. event.bucket = call[p].bucket /\ event.amount = call[p].amount
    OBVIOUS
  <2> HIDE DEF event, k
  <2>5. ASSUME NEW b \in Buckets
        PROVE  /\ Charged(b) \in Int
               /\ Charged(b)' = Charged(b) + (IF event.bucket = b THEN event.amount ELSE 0)
    BY <2>1, <2>3, <2>4, ChargedMore
  <2>6. UsedIsLedger'
    BY <2>1, <2>4, <2>5 DEF Totals, UsedIsLedger, TypeOK
  <2>7. QED
    BY <2>2, <2>6 DEF Totals
(* A hold that ends alone takes its own amount off its own bucket. *)
<1>7. ASSUME NEW p \in Procs, FoldCommit(p) \/ FoldExpired(p)
      PROVE  /\ ReservedIsHeld'
             /\ call[p].res \in ResKeys /\ reservations[call[p].res].status = "pending"
             /\ BucketOf(p) = reservations[call[p].res].bucket
  <2> DEFINE r == call[p].res
  <2>1. /\ pc[p] = "fold" /\ call[p].op \in {"commit", "release"} /\ r \in ResKeys
        /\ call[p].outcome \in Terminal
        /\ BucketOf(p) = reservations[r].bucket
        /\ reservations' = Settled({r}, call[p].outcome)
        /\ reserved' = [reserved EXCEPT ![BucketOf(p)] = Clamped(@ - reservations[r].amount)]
    BY <1>7 DEF FoldCommit, FoldExpired, AtFreeTotals, CallShape, BucketOf, Terminal
  <2>2. reservations[r].status = "pending"
    BY <2>1 DEF LockInv, HoldsNeeded, RowsLocked
  <2> HIDE DEF r
  <2>3. ASSUME NEW b \in Buckets
        PROVE  /\ Held(b) \in Nat /\ Freed({r}, b) \in Nat /\ Freed({r}, b) <= Held(b)
               /\ Held(b)' = Held(b) - Freed({r}, b)
    <3>1. {r} \in SUBSET ResKeys /\ \A q \in {r} : reservations[q].status = "pending"
      BY <2>1, <2>2
    <3>2. QED
      BY <2>1, <3>1, HeldSettled
  <2>4. ASSUME NEW b \in Buckets PROVE reserved'[b] = Held(b)'
    <3>1. Freed({r}, b) = IF reservations[r].bucket = b THEN reservations[r].amount ELSE 0
      BY <2>1, FreedOne
    <3>2. reserved[b] = Held(b)
      BY DEF Totals, ReservedIsHeld
    <3>3. CASE b = BucketOf(p)
      <4>1. reserved'[b] = Clamped(reserved[b] - reservations[r].amount)
        BY <2>1, <3>3 DEF TypeOK
      <4>2. QED
        BY <2>1, <2>3, <3>1, <3>2, <3>3, <4>1 DEF Clamped
    <3>4. CASE b # BucketOf(p)
      <4>1. reserved'[b] = reserved[b]
        BY <2>1, <3>4 DEF TypeOK
      <4>2. Freed({r}, b) = 0
        BY <2>1, <3>1, <3>4
      <4>3. Held(b)' = Held(b)
        BY <2>3, <4>2
      <4>4. QED
        BY <3>2, <4>1, <4>3
    <3>5. QED
      BY <3>3, <3>4
  <2>5. QED
    BY <2>1, <2>2, <2>4 DEF ReservedIsHeld, r
<1>8. ASSUME NEW p \in Procs, FoldExpired(p) PROVE Totals'
  BY <1>7, <1>8, ChargedSame DEF FoldExpired, Totals, UsedIsLedger
<1>9. ASSUME NEW p \in Procs, NEW event \in Event, event.bucket = BucketOf(p),
             event.amount \in Int,
             pc[p] = "fold", call[p].op \in {"commit", "adjust"},
             call[p].op = "commit" => call[p].outcome = "committed",
             usage_events' = [usage_events EXCEPT ![call[p].key] = event],
             used' = WithUsed(BucketOf(p), event.amount), BucketOf(p) \in Buckets
      PROVE  UsedIsLedger'
  <2>1. call[p].key \in EventKeys /\ usage_events[call[p].key].kind = "none"
    BY <1>9 DEF CallShape, LockInv, HoldsNeeded, KeysLocked
  <2>2. usage_events[call[p].key] = NoEvent
    BY <2>1 DEF Blank
  <2>3. ASSUME NEW b \in Buckets
        PROVE  /\ Charged(b) \in Int
               /\ Charged(b)' = Charged(b) + (IF event.bucket = b THEN event.amount ELSE 0)
    BY <1>9, <2>1, <2>2, ChargedMore
  <2>4. QED
    BY <1>9, <2>3 DEF WithUsed, Totals, UsedIsLedger, TypeOK
<1>10. ASSUME NEW p \in Procs, FoldCommit(p) PROVE Totals'
  <2> DEFINE r == call[p].res
             event == [kind |-> "commit", bucket |-> BucketOf(p),
                       amount |-> reservations[r].amount, reservation |-> r]
  <2>1. /\ pc[p] = "fold" /\ call[p].op = "commit" /\ call[p].outcome = "committed"
        /\ usage_events' = [usage_events EXCEPT ![call[p].key] = event]
        /\ used' = WithUsed(BucketOf(p), event.amount)
    BY <1>10 DEF FoldCommit, AtFreeTotals
  <2>2. /\ r \in ResKeys /\ reservations[r].status = "pending"
        /\ BucketOf(p) = reservations[r].bucket
    BY <1>7, <1>10
  <2>3. event \in Event /\ event.amount \in Int
    BY <2>2, UsageAssumption DEF UsageAssumption, TypeOK, Reservation, Event
  <2>4. BucketOf(p) \in Buckets
    BY <2>2 DEF Blank
  <2>5. UsedIsLedger'
    BY <1>9, <2>1, <2>3, <2>4
  <2>6. QED
    BY <1>7, <1>10, <2>5 DEF Totals
<1>11. ASSUME NEW p \in Procs, FoldAdjust(p) PROVE Totals'
  <2> DEFINE event == [kind |-> "adjustment", bucket |-> BucketOf(p),
                       amount |-> call[p].amount, reservation |-> None]
  <2>1. /\ pc[p] = "fold" /\ call[p].op = "adjust" /\ BucketOf(p) = call[p].bucket
        /\ call[p].bucket \in Buckets /\ call[p].amount \in AdjustAmounts
        /\ usage_events' = [usage_events EXCEPT ![call[p].key] = event]
        /\ used' = WithUsed(BucketOf(p), event.amount)
        /\ reservations' = reservations /\ reserved' = reserved
    BY <1>11 DEF FoldAdjust, AtFreeTotals, BucketOf, CallShape
  <2>2. event \in Event /\ event.amount \in Int
    <3>1. call[p].amount \in (-MaxAmount)..MaxAmount /\ call[p].amount \in Int
      BY DEF TypeOK, Call
    <3>2. QED
      BY <2>1, <3>1 DEF Event
  <2>3. UsedIsLedger'
    BY <1>9, <2>1, <2>2
  <2>4. QED
    BY <2>1, <2>3, HeldSame DEF Totals, ReservedIsHeld
<1>12. ASSUME NEW p \in Procs, SweepCommit(p) PROVE Totals'
  <2>1. /\ LockedRows(p) \in SUBSET ResKeys
        /\ \A r \in LockedRows(p) : reservations[r].status = "pending"
    BY DEF LockedRows, LockInv, RowsLocked
  <2>2. /\ reservations' = Settled(LockedRows(p), "expired")
        /\ reserved' = [b \in Buckets |-> Clamped(reserved[b] - Freed(LockedRows(p), b))]
        /\ used' = used /\ usage_events' = usage_events
    BY <1>12 DEF SweepCommit
  <2>3. ASSUME NEW b \in Buckets PROVE reserved'[b] = Held(b)'
    <3>1. /\ Held(b) \in Nat /\ Freed(LockedRows(p), b) \in Nat
          /\ Freed(LockedRows(p), b) <= Held(b)
          /\ Held(b)' = Held(b) - Freed(LockedRows(p), b)
      BY <2>1, <2>2, HeldSettled DEF Terminal
    <3>2. QED
      BY <2>2, <3>1 DEF Clamped, Totals, ReservedIsHeld
  <2>4. QED
    BY <2>2, <2>3, ChargedSame DEF Totals, ReservedIsHeld, UsedIsLedger
<1>13. QED
  BY <1>1, <1>4, <1>5, <1>6, <1>8, <1>10, <1>11, <1>12
  DEF Next, Request, BeginReserve, BeginCharge, BeginCommit, BeginRelease, BeginAdjust,
      Statement, LockTotals, LockStale, Decide, FoundTerminal, LockRow, InsertReplayed,
      InsertEvent, Sweep, SweepStart, SweepRows, SweepTotals, Abort, Tick, Procs, vars, tables

LEMMA BlankStep ==
    TypeOK /\ CallShape /\ LockInv /\ Blank /\ [Next]_vars => Blank'
<1> SUFFICES ASSUME TypeOK, CallShape, LockInv, Blank, [Next]_vars PROVE Blank'
  OBVIOUS
<1>1. CASE UNCHANGED <<reservations, usage_events>>
  BY <1>1 DEF Blank
<1>2. ASSUME NEW S, \A r \in S : r \in ResKeys => reservations[r].status = "pending",
             NEW status \in Terminal, reservations' = Settled(S, status),
             usage_events' = usage_events
      PROVE  Blank'
  BY <1>2 DEF Blank, Settled, Terminal, TypeOK, Reservation
<1>3. ASSUME NEW k, NEW event, event.kind # "none",
             usage_events' = [usage_events EXCEPT ![k] = event]
      PROVE  \A j \in EventKeys : usage_events'[j].kind = "none" => usage_events'[j] = NoEvent
  BY <1>3 DEF Blank, TypeOK
<1>4. ASSUME NEW S, \A r \in S : r \in ResKeys => reservations[r].status = "pending",
             NEW status \in Terminal, reservations' = Settled(S, status)
      PROVE  \A r \in ResKeys :
               /\ reservations'[r].status = "absent" => reservations'[r] = Absent
               /\ reservations'[r].status # "absent" => reservations'[r].bucket \in Buckets
  BY <1>4 DEF Blank, Settled, Terminal, TypeOK, Reservation
<1>5. \A p \in Procs : \A r \in Stale(p) : reservations[r].status = "pending"
  BY DEF Stale, Overdue
<1>6. ASSUME NEW p \in Procs,
             ReserveDenied(p) \/ ReserveReplayed(p) \/ ChargeDenied(p) \/ ChargeReplayed(p)
      PROVE  Blank'
  BY <1>2, <1>5, <1>6
  DEF ReserveDenied, ReserveReplayed, ChargeDenied, ChargeReplayed, ExpireOnly, Terminal
<1>7. ASSUME NEW p \in Procs, Reserve(p) PROVE Blank'
  <2> DEFINE row == [status |-> "pending", bucket |-> call[p].bucket,
                     amount |-> call[p].amount, expires_at |-> Deadline]
  <2>1. /\ reservations' = [Settled(Stale(p), "expired") EXCEPT ![call[p].res] = row]
        /\ usage_events' = usage_events /\ call[p].bucket \in Buckets
    BY <1>7 DEF Reserve, Decided, CallShape
  <2>2. row.status = "pending" /\ row.bucket \in Buckets
    BY <2>1
  <2> HIDE DEF row
  <2>3. QED
    BY <1>5, <2>1, <2>2 DEF Blank, Settled, TypeOK, Reservation
<1>8. ASSUME NEW p \in Procs, Charge(p) PROVE Blank'
  BY <1>3, <1>4, <1>5, <1>8 DEF Charge, Terminal, Blank
<1>9. ASSUME NEW p \in Procs, FoldCommit(p) \/ FoldExpired(p) PROVE Blank'
  <2>1. /\ pc[p] = "fold" /\ call[p].op \in {"commit", "release"} /\ call[p].res \in ResKeys
        /\ call[p].outcome \in Terminal
        /\ reservations' = Settled({call[p].res}, call[p].outcome)
    BY <1>9 DEF FoldCommit, FoldExpired, AtFreeTotals, CallShape, Terminal
  <2>2. reservations[call[p].res].status = "pending"
    BY <2>1 DEF LockInv, HoldsNeeded, RowsLocked
  <2>3. CASE FoldCommit(p)
    <3> DEFINE event == [kind |-> "commit", bucket |-> BucketOf(p),
                         amount |-> reservations[call[p].res].amount,
                         reservation |-> call[p].res]
    <3>1. usage_events' = [usage_events EXCEPT ![call[p].key] = event] /\ event.kind # "none"
      BY <2>3 DEF FoldCommit
    <3> HIDE DEF event
    <3>2. \A j \in EventKeys : usage_events'[j].kind = "none" => usage_events'[j] = NoEvent
      BY <1>3, <3>1
    <3>3. QED
      BY <1>4, <2>1, <2>2, <3>2 DEF Blank
  <2>4. CASE FoldExpired(p)
    BY <1>2, <2>1, <2>2, <2>4 DEF FoldExpired
  <2>5. QED
    BY <1>9, <2>3, <2>4
<1>10. ASSUME NEW p \in Procs, FoldAdjust(p) PROVE Blank'
  BY <1>3, <1>10 DEF FoldAdjust, Blank
<1>11. ASSUME NEW p \in Procs, SweepCommit(p) PROVE Blank'
  <2>1. \A r \in LockedRows(p) : reservations[r].status = "pending"
    BY DEF LockedRows, LockInv, RowsLocked
  <2>2. QED
    BY <1>2, <1>11, <2>1 DEF SweepCommit, Terminal
<1>12. QED
  BY <1>1, <1>6, <1>7, <1>8, <1>9, <1>10, <1>11
  DEF Next, Request, BeginReserve, BeginCharge, BeginCommit, BeginRelease, BeginAdjust,
      Statement, LockTotals, LockStale, Decide, FoundTerminal, LockRow, InsertReplayed,
      InsertEvent, Sweep, SweepStart, SweepRows, SweepTotals, Abort, Tick, Procs, vars, tables

LEMMA TotalsInit == Init => Blank /\ Totals
<1> SUFFICES ASSUME Init PROVE Blank /\ Totals
  OBVIOUS
<1>1. Blank
  BY DEF Init, Blank, Absent, NoEvent
<1>2. ASSUME NEW b \in Buckets PROVE Held(b) = 0 /\ Charged(b) = 0
  <2>1. UnitsOf(Pending(b)) = {}
    BY DEF Init, UnitsOf, Pending, Absent
  <2>2. \A k \in EventKeys : usage_events[k].bucket # b
    BY UsageAssumption DEF UsageAssumption, Init, NoEvent
  <2>3. EventsOf(b) = {}
    BY <2>2 DEF EventsOf
  <2>4. \A f : Units({}, f) = {}
    BY DEF Units
  <2>5. Cardinality({}) = 0
    BY FS_EmptySet
  <2>6. Charged(b) = Cardinality({}) - Cardinality({})
    BY TypeInit, SumsAreUnits, <2>3, <2>4 DEF SumsAsUnits
  <2>7. QED
    BY <2>1, <2>5, <2>6 DEF Held
<1>3. QED
  BY <1>1, <1>2 DEF Init, Totals, ReservedIsHeld, UsedIsLedger
------------------------------------------------------------------------------
(* What a decision rests on.  Between the decision and COMMIT the process   *)
(* has the totals row and every stale reservation, so what it decided on is *)
(* still what the tables say.                                               *)
DecisionStands ==
    \A p \in Procs : pc[p] = "decided" /\ call[p].outcome = "allow" =>
        Fits(call[p].amount, used[call[p].bucket], ReservedNow(p), call[p].limit)

(* A step of another transaction leaves the decision of q as it was.        *)
LEMMA DecisionAside ==
    ASSUME TypeOK, CallShape, LockInv, DecisionStands, NEW p \in Procs, Finish(p),
           \A r \in ResKeys : \/ reservations'[r] = reservations[r]
                              \/ rowLock[r] = p /\ reservations'[r].status # "pending"
                              \/ /\ reservations[r].status = "absent"
                                 /\ reservations'[r].expires_at = Deadline,
           \A b \in Buckets : totLock[b] \notin {p, None} =>
                                used'[b] = used[b] /\ reserved'[b] = reserved[b]
    PROVE  DecisionStands'
<1> SUFFICES ASSUME NEW q \in Procs, pc'[q] = "decided", call'[q].outcome = "allow"
             PROVE  Fits(call[q].amount, used[call[q].bucket], ReservedNow(q), call[q].limit)'
  BY DEF DecisionStands
<1>1. q # p /\ pc[q] = "decided" /\ call'[q] = call[q]
  BY DEF Finish, TypeOK
<1>2. call[q].bucket \in Buckets /\ totLock[call[q].bucket] = q
  BY <1>1 DEF CallShape, LockInv, HoldsNeeded
<1>3. q # None
  BY UsageAssumption DEF UsageAssumption
<1>4. used'[call[q].bucket] = used[call[q].bucket] /\ reserved'[call[q].bucket] = reserved[call[q].bucket]
  BY <1>1, <1>2, <1>3
<1>5. \A r \in Stale(q) : r \in ResKeys /\ rowLock[r] = q /\ reservations'[r] = reservations[r]
  <2>1. \A r \in Stale(q) : r \in ResKeys /\ reservations[r].status = "pending" /\ rowLock[r] = q
    BY <1>1 DEF Stale, Overdue, LockInv, HoldsNeeded
  <2>2. QED
    BY <1>1, <2>1
<1>6. Stale(q)' = Stale(q)
  <2>1. call[q].start <= clock /\ call[q].start \in Nat /\ clock \in Nat
    BY DEF LockInv, HoldsNeeded, TypeOK, Call
  <2>2. ASSUME NEW r \in ResKeys, r \in Stale(q)' PROVE r \in Stale(q)
    <3>1. reservations'[r].status = "pending" /\ reservations'[r].expires_at <= call[q].start
      BY <1>1, <2>2 DEF Stale, Overdue
    <3>2. reservations'[r] = reservations[r]
      BY <2>1, <3>1, UsageAssumption DEF UsageAssumption, Deadline
    <3>3. QED
      BY <1>1, <2>2, <3>2 DEF Stale, Overdue
  <2>3. \A r \in Stale(q) : r \in Stale(q)'
    BY <1>1, <1>5 DEF Stale, Overdue
  <2>4. QED
    BY <2>2, <2>3 DEF Stale, Overdue
<1>7. Freed(Stale(q), call[q].bucket)' = Freed(Stale(q), call[q].bucket)
  BY <1>1, <1>5, <1>6 DEF Freed, UnitsOf
<1>8. ReservedNow(q)' = ReservedNow(q)
  BY <1>1, <1>4, <1>7 DEF ReservedNow
<1>9. QED
  BY <1>1, <1>4, <1>8 DEF DecisionStands, Fits

(* A transaction writes the totals only of buckets it has or finds free.    *)
LEMMA EndTotals ==
    ASSUME TypeOK, CallShape, LockInv, NEW p \in Procs,
           \/ ReserveDenied(p) \/ ReserveReplayed(p) \/ Reserve(p)
           \/ ChargeDenied(p) \/ ChargeReplayed(p) \/ Charge(p)
           \/ FoundTerminal(p) \/ InsertReplayed(p)
           \/ FoldCommit(p) \/ FoldExpired(p) \/ FoldAdjust(p)
           \/ SweepCommit(p) \/ Abort(p),
           NEW b \in Buckets, totLock[b] \notin {p, None}
    PROVE  used'[b] = used[b] /\ reserved'[b] = reserved[b]
<1>1. CASE \/ ReserveDenied(p) \/ ReserveReplayed(p) \/ Reserve(p)
           \/ ChargeDenied(p) \/ ChargeReplayed(p) \/ Charge(p)
  <2>1. pc[p] = "decided"
    BY <1>1 DEF ReserveDenied, ReserveReplayed, Reserve, ChargeDenied, ChargeReplayed, Charge,
       Decided
  <2>2. b # call[p].bucket
    BY <2>1 DEF LockInv, HoldsNeeded
  <2>3. QED
    BY <1>1, <2>2 DEF ReserveDenied, ReserveReplayed, Reserve, ChargeDenied, ChargeReplayed,
       Charge, ExpireOnly, WithUsed, TypeOK
<1>2. CASE FoundTerminal(p) \/ InsertReplayed(p) \/ Abort(p)
  BY <1>2 DEF FoundTerminal, InsertReplayed, Abort, tables
<1>3. CASE FoldCommit(p) \/ FoldExpired(p) \/ FoldAdjust(p)
  <2>1. b # BucketOf(p)
    BY <1>3 DEF FoldCommit, FoldExpired, FoldAdjust, AtFreeTotals, FreeTotals
  <2>2. CASE FoldCommit(p)
    BY <2>1, <2>2 DEF FoldCommit, WithUsed, TypeOK
  <2>3. CASE FoldExpired(p)
    BY <2>1, <2>3 DEF FoldExpired, TypeOK
  <2>4. CASE FoldAdjust(p)
    <3>1. b # call[p].bucket
      BY <2>1, <2>4 DEF FoldAdjust, AtFreeTotals, BucketOf
    <3>2. QED
      BY <2>4, <3>1 DEF FoldAdjust, WithUsed, TypeOK
  <2>5. QED
    BY <1>3, <2>2, <2>3, <2>4
<1>4. CASE SweepCommit(p)
  <2>1. b \notin SweptBuckets(p)
    BY <1>4 DEF SweepCommit
  <2>2. /\ LockedRows(p) \in SUBSET ResKeys
        /\ \A r \in LockedRows(p) : reservations[r].bucket # b
    BY <2>1 DEF SweptBuckets, LockedRows
  <2>3. Freed(LockedRows(p), b) = 0
    BY <2>2, FreedElsewhere
  <2>4. used' = used /\ reserved'[b] = Clamped(reserved[b] - 0)
    BY <1>4, <2>3 DEF SweepCommit
  <2>5. QED
    BY <2>4 DEF Clamped, TypeOK
<1>5. QED
  BY <1>1, <1>2, <1>3, <1>4

LEMMA DecisionStep ==
    TypeOK /\ CallShape /\ LockInv /\ DecisionStands /\ [Next]_vars => DecisionStands'
<1> SUFFICES ASSUME TypeOK, CallShape, LockInv, DecisionStands, [Next]_vars
             PROVE  DecisionStands'
  OBVIOUS
<1>1. ASSUME NEW p \in Procs,
             \/ ReserveDenied(p) \/ ReserveReplayed(p) \/ Reserve(p)
             \/ ChargeDenied(p) \/ ChargeReplayed(p) \/ Charge(p)
             \/ FoundTerminal(p) \/ InsertReplayed(p)
             \/ FoldCommit(p) \/ FoldExpired(p) \/ FoldAdjust(p)
             \/ SweepCommit(p) \/ Abort(p)
      PROVE  DecisionStands'
  <2>1. /\ Finish(p)
        /\ \A r \in ResKeys :
              \/ reservations'[r] = reservations[r]
              \/ rowLock[r] = p /\ reservations'[r].status # "pending"
              \/ reservations[r].status = "absent" /\ reservations'[r].expires_at = Deadline
    BY <1>1, EndRows
  <2>2. \A b \in Buckets : totLock[b] \notin {p, None} =>
           used'[b] = used[b] /\ reserved'[b] = reserved[b]
    BY <1>1, EndTotals
  <2>3. QED
    BY <2>1, <2>2, DecisionAside
(* The tables stay, and p is not, or was already, past its decision. *)
<1>2. ASSUME UNCHANGED <<reservations, used, reserved>>, NEW p \in Procs,
             \A q \in Procs : pc'[q] = "decided" => /\ q # p /\ pc[q] = "decided"
                                                   /\ call'[q] = call[q]
      PROVE  DecisionStands'
  BY <1>2 DEF DecisionStands, Fits, ReservedNow, Stale, Overdue, Freed, UnitsOf
<1>3. ASSUME NEW p \in Procs, Decide(p) PROVE DecisionStands'
  <2> SUFFICES ASSUME NEW q \in Procs, pc'[q] = "decided", call'[q].outcome = "allow"
               PROVE  Fits(call[q].amount, used[call[q].bucket], ReservedNow(q), call[q].limit)'
    BY DEF DecisionStands
  <2>1. /\ UNCHANGED <<reservations, used, reserved>>
        /\ call' = [call EXCEPT ![p].outcome =
                IF Fits(call[p].amount, used[call[p].bucket], ReservedNow(p), call[p].limit)
                THEN "allow" ELSE "deny"]
        /\ pc' = [pc EXCEPT ![p] = "decided"]
    BY <1>3 DEF Decide, GoTo, tables
  <2>2. /\ call'[q].amount = call[q].amount /\ call'[q].bucket = call[q].bucket
        /\ call'[q].limit = call[q].limit /\ call'[q].start = call[q].start
    BY <2>1 DEF TypeOK, Call
  <2>3. Fits(call[q].amount, used[call[q].bucket], ReservedNow(q), call[q].limit)
    <3>1. CASE q = p
      BY <2>1, <3>1 DEF TypeOK, Call
    <3>2. CASE q # p
      BY <2>1, <3>2 DEF TypeOK, DecisionStands
    <3>3. QED
      BY <3>1, <3>2
  <2>4. ReservedNow(q)' = ReservedNow(q)
    BY <2>1, <2>2 DEF ReservedNow, Stale, Overdue, Freed, UnitsOf
  <2>5. QED
    BY <2>1, <2>2, <2>3, <2>4 DEF Fits
<1>4. ASSUME NEW p \in Clients, Request(p) PROVE DecisionStands'
  <2>1. /\ UNCHANGED tables /\ p \in Procs
        /\ \E where \in {"totals", "row", "insert"} : \E request : Begin(p, where, request)
    BY <1>4 DEF Request, BeginReserve, BeginCharge, BeginCommit, BeginRelease, BeginAdjust, Procs
  <2>2. \A q \in Procs : pc'[q] = "decided" => /\ q # p /\ pc[q] = "decided"
                                              /\ call'[q] = call[q]
    BY <2>1 DEF Begin, TypeOK
  <2>3. QED
    BY <1>2, <2>1, <2>2 DEF tables
<1>5. ASSUME NEW p \in Procs, LockTotals(p) \/ LockRow(p) \/ InsertEvent(p)
      PROVE  DecisionStands'
  <2>1. \A q \in Procs : pc'[q] = "decided" => /\ q # p /\ pc[q] = "decided"
                                              /\ call'[q] = call[q]
    BY <1>5 DEF LockTotals, LockRow, InsertEvent, GoTo, TypeOK
  <2>2. UNCHANGED tables
    BY <1>5 DEF LockTotals, LockRow, InsertEvent
  <2>3. QED
    BY <1>2, <2>1, <2>2 DEF tables
<1>6. ASSUME NEW p \in Sweepers, NEW S \in SUBSET ResKeys, SweepRows(p, S)
      PROVE  DecisionStands'
  <2>1. p \in Procs /\ UNCHANGED tables
    BY <1>6 DEF SweepRows, Procs
  <2>2. \A q \in Procs : pc'[q] = "decided" => /\ q # p /\ pc[q] = "decided"
                                              /\ call'[q] = call[q]
    BY <1>6, <2>1 DEF SweepRows, Begin, TypeOK
  <2>3. QED
    BY <1>2, <2>1, <2>2 DEF tables
<1>7. CASE UNCHANGED <<reservations, used, reserved, pc, call>>
  BY <1>7 DEF DecisionStands, Fits, ReservedNow, Stale, Overdue, Freed, UnitsOf
<1>8. QED
  BY <1>1, <1>3, <1>4, <1>5, <1>6, <1>7
  DEF Next, Statement, LockStale, Sweep, SweepStart, SweepTotals, Tick, Procs, vars, tables
------------------------------------------------------------------------------
(* What a step does to the columns, and to what operators have added.       *)
LedgerInv == TypeOK /\ CallShape /\ LockInv /\ Blank /\ Totals /\ DecisionStands

LEMMA LedgerStep == LedgerInv /\ [Next]_vars => LedgerInv'
BY TypeStep, ShapeStep, LockStep, BlankStep, TotalsStep, DecisionStep DEF LedgerInv

LEMMA LedgerInit == Init => LedgerInv
<1>1. Init => DecisionStands
  BY DEF Init, DecisionStands
<1>2. QED
  BY <1>1, TypeInit, LockInit, TotalsInit DEF LedgerInv

(* The reserved column equals the pending reservations it summarises, in     *)
(* every committed state.                                                   *)
THEOREM HoldsCounted == Spec => []ReservedIsHeld
<1>1. LedgerInv => ReservedIsHeld
  BY DEF LedgerInv, Totals
<1>2. QED
  BY <1>1, LedgerInit, LedgerStep, PTL DEF Spec

(* The used column equals the append-only ledger it summarises.             *)
THEOREM EventsCounted == Spec => []UsedIsLedger
<1>1. LedgerInv => UsedIsLedger
  BY DEF LedgerInv, Totals
<1>2. QED
  BY <1>1, LedgerInit, LedgerStep, PTL DEF Spec

LEMMA LimitType == \A limit \in Limits \cup {Unlimited} : limit # Unlimited => limit \in Nat
BY UsageAssumption DEF UsageAssumption

GrantedInNat == \A b \in Buckets : Granted(b) \in Nat

LEMMA GrantedSum == TypeOK => GrantedInNat
<1> SUFFICES ASSUME TypeOK, NEW b \in Buckets PROVE Granted(b) \in Nat
  BY DEF GrantedInNat
<1>1. IsFiniteSet(Adjustments(b))
  BY KeysFinite DEF Adjustments, EventsOf
<1>2. Granted(b) = Cardinality(Units(Adjustments(b), Signed(1)))
  BY SumsAreUnits DEF SumsAsUnits
<1>3. QED
  BY <1>1, <1>2, UnitsCount

(* How a step that does not admit anything new can change the sums of a     *)
(* bucket: what is used and held grows by no more than operators add.       *)
Eased(b) == used'[b] + reserved'[b] - Granted(b)' <= used[b] + reserved[b] - Granted(b)

(* A step that admits a request for b: it fits under the limit.             *)
Admitted(p, b) ==
    /\ pc[p] = "decided" /\ call[p].bucket = b
    /\ call[p].limit # Unlimited =>
          used'[b] + reserved'[b] <= call[p].limit + Granted(b)'

LEMMA NowLess ==
    ASSUME LedgerInv, NEW p \in Procs, pc[p] = "decided"
    PROVE  /\ ReservedNow(p) \in Nat
           /\ ReservedNow(p) <= reserved[call[p].bucket]
<1>1. /\ call[p].bucket \in Buckets /\ reserved[call[p].bucket] \in Nat
  BY DEF LedgerInv, CallShape, TypeOK
<1>2. Stale(p) \in SUBSET ResKeys
  BY DEF Stale, Overdue
<1>3. Freed(Stale(p), call[p].bucket) \in Nat
  BY <1>2, FreedType DEF LedgerInv
<1>4. QED
  BY <1>1, <1>3 DEF ReservedNow, Clamped

LEMMA SumsMove ==
    ASSUME LedgerInv, LedgerInv', [Next]_vars, NEW b \in Buckets
    PROVE  Eased(b) \/ \E p \in Procs : Admitted(p, b)
<1> USE DEF LedgerInv
<1>0. /\ used[b] \in Int /\ used'[b] \in Int /\ reserved[b] \in Nat /\ reserved'[b] \in Nat
      /\ Granted(b) \in Nat /\ Granted(b)' \in Nat
  <2>1. TypeOK /\ TypeOK'
    OBVIOUS
  <2>2. GrantedInNat /\ GrantedInNat'
    BY <2>1, GrantedSum, PTL
  <2>3. QED
    BY <2>1, <2>2 DEF TypeOK, GrantedInNat
<1>1. ASSUME used'[b] = used[b], reserved'[b] <= reserved[b], usage_events' = usage_events
      PROVE  Eased(b)
  BY <1>0, <1>1, ChargedSame DEF Eased
<1>2. ASSUME NEW p \in Procs,
             ReserveDenied(p) \/ ReserveReplayed(p) \/ ChargeDenied(p) \/ ChargeReplayed(p)
      PROVE  Eased(b)
  <2>1. /\ pc[p] = "decided" /\ ExpireOnly(p)
    BY <1>2 DEF ReserveDenied, ReserveReplayed, ChargeDenied, ChargeReplayed, Decided
  <2>2. reserved'[b] <= reserved[b]
    <3>1. CASE b = call[p].bucket
      BY <2>1, <3>1, NowLess DEF ExpireOnly, TypeOK
    <3>2. CASE b # call[p].bucket
      BY <1>0, <2>1, <3>2 DEF ExpireOnly, TypeOK
    <3>3. QED
      BY <3>1, <3>2
  <2>3. QED
    BY <1>1, <2>1, <2>2 DEF ExpireOnly
<1>3. ASSUME NEW p \in Procs, Reserve(p) PROVE Eased(b) \/ Admitted(p, b)
  <2>1. /\ pc[p] = "decided" /\ call[p].outcome = "allow" /\ call[p].bucket \in Buckets
        /\ call[p].amount \in Int
        /\ reserved' = [reserved EXCEPT ![call[p].bucket] = ReservedNow(p) + call[p].amount]
        /\ used' = used /\ usage_events' = usage_events
    BY <1>3 DEF Reserve, Decided, CallShape, TypeOK, Call
  <2>2. CASE b = call[p].bucket
    <3>1. call[p].limit # Unlimited => call[p].amount <= call[p].limit - used[b] - ReservedNow(p)
      BY <2>1, <2>2 DEF DecisionStands, Fits
    <3>2. call[p].limit # Unlimited => call[p].limit \in Int
      BY LimitType DEF TypeOK, Call
    <3>3. reserved'[b] = ReservedNow(p) + call[p].amount /\ ReservedNow(p) \in Nat
      BY <2>1, <2>2, NowLess DEF TypeOK
    <3>4. QED
      BY <1>0, <2>1, <2>2, <3>1, <3>2, <3>3, ChargedSame DEF Admitted
  <2>3. CASE b # call[p].bucket
    BY <1>0, <1>1, <2>1, <2>3 DEF TypeOK
  <2>4. QED
    BY <2>2, <2>3
<1>4. ASSUME NEW p \in Procs, Charge(p) PROVE Eased(b) \/ Admitted(p, b)
  <2> DEFINE event == [kind |-> "commit", bucket |-> call[p].bucket,
                       amount |-> call[p].amount, reservation |-> None]
  <2>1. /\ pc[p] = "decided" /\ call[p].outcome = "allow" /\ call[p].bucket \in Buckets
        /\ call[p].key \in EventKeys /\ usage_events[call[p].key].kind = "none"
        /\ call[p].amount \in Amounts
        /\ usage_events' = [usage_events EXCEPT ![call[p].key] = event]
        /\ used' = [used EXCEPT ![call[p].bucket] = @ + call[p].amount]
        /\ reserved' = [reserved EXCEPT ![call[p].bucket] = ReservedNow(p)]
    BY <1>4 DEF Charge, Decided, CallShape, WithUsed
  <2>2. call[p].amount \in Nat
    BY <2>1, UsageAssumption DEF UsageAssumption, Amounts
  <2>3. /\ event \in Event /\ usage_events[call[p].key] = NoEvent
        /\ event.bucket \in Buckets /\ event.kind = "commit"
    BY <2>1, UsageAssumption DEF UsageAssumption, Event, Amounts, Blank
  <2> HIDE DEF event
  <2>4. Granted(b)' = Granted(b) + 0
    BY <2>1, <2>3, ChargedMore
  <2>5. CASE b = call[p].bucket
    <3>1. call[p].limit # Unlimited => call[p].amount <= call[p].limit - used[b] - ReservedNow(p)
      BY <2>1, <2>5 DEF DecisionStands, Fits
    <3>2. call[p].limit # Unlimited => call[p].limit \in Int
      BY LimitType DEF TypeOK, Call
    <3>3. reserved'[b] = ReservedNow(p) /\ used'[b] = used[b] + call[p].amount
          /\ ReservedNow(p) \in Nat
      BY <2>1, <2>5, NowLess DEF TypeOK
    <3>4. QED
      BY <1>0, <2>1, <2>2, <2>5, <3>1, <3>2, <3>3 DEF Admitted
  <2>6. CASE b # call[p].bucket
    BY <1>0, <2>1, <2>4, <2>6 DEF Eased, TypeOK
  <2>7. QED
    BY <2>5, <2>6
<1>5. ASSUME NEW p \in Procs, FoldCommit(p) PROVE Eased(b)
  <2> DEFINE r == call[p].res
             event == [kind |-> "commit", bucket |-> BucketOf(p),
                       amount |-> reservations[r].amount, reservation |-> r]
  <2>1. /\ pc[p] = "fold" /\ call[p].op = "commit" /\ call[p].outcome = "committed"
        /\ r \in ResKeys /\ BucketOf(p) = reservations[r].bucket
        /\ usage_events' = [usage_events EXCEPT ![call[p].key] = event]
        /\ used' = [used EXCEPT ![BucketOf(p)] = @ + reservations[r].amount]
        /\ reserved' = [reserved EXCEPT ![BucketOf(p)] = Clamped(@ - reservations[r].amount)]
        /\ reservations' = Settled({r}, "committed")
    BY <1>5 DEF FoldCommit, AtFreeTotals, CallShape, BucketOf, WithUsed
  <2>2. /\ reservations[r].status = "pending" /\ call[p].key \in EventKeys
        /\ usage_events[call[p].key].kind = "none"
    BY <2>1 DEF LockInv, HoldsNeeded, RowsLocked, KeysLocked, CallShape
  <2>3. /\ reservations[r].bucket \in Buckets
        /\ reservations[r].amount \in 0..MaxAmount /\ reservations[r].amount \in Nat
        /\ usage_events[call[p].key] = NoEvent
    BY <2>1, <2>2, UsageAssumption DEF UsageAssumption, Blank, TypeOK, Reservation
  <2>4. event \in Event /\ event.bucket \in Buckets /\ event.kind = "commit"
    BY <2>1, <2>3, UsageAssumption DEF UsageAssumption, Event
  <2> HIDE DEF event, r
  <2>5. Granted(b)' = Granted(b) + 0
    BY <2>1, <2>2, <2>3, <2>4, ChargedMore
  <2>6. CASE b = BucketOf(p)
    <3>1. Freed({r}, b) = reservations[r].amount
      BY <2>1, <2>6, FreedOne
    <3>2. Freed({r}, b) <= Held(b)
      <4>1. {r} \in SUBSET ResKeys /\ \A q \in {r} : reservations[q].status = "pending"
        BY <2>1, <2>2
      <4>2. QED
        BY <2>1, <4>1, HeldSettled DEF Terminal
    <3>3. reservations[r].amount <= reserved[b]
      BY <3>1, <3>2 DEF Totals, ReservedIsHeld
    <3>4. /\ used'[b] = used[b] + reservations[r].amount
          /\ reserved'[b] = Clamped(reserved[b] - reservations[r].amount)
      BY <2>1, <2>6 DEF TypeOK
    <3>5. QED
      BY <1>0, <1>5, <2>3, <2>5, <3>3, <3>4 DEF Eased, Clamped
  <2>7. CASE b # BucketOf(p)
    <3>1. used'[b] = used[b] /\ reserved'[b] = reserved[b]
      BY <2>1, <2>7 DEF TypeOK
    <3>2. QED
      BY <1>0, <2>5, <3>1 DEF Eased
  <2>8. QED
    BY <2>6, <2>7
<1>6. ASSUME NEW p \in Procs, FoldExpired(p) PROVE Eased(b)
  <2>1. /\ used' = used /\ usage_events' = usage_events /\ call[p].res \in ResKeys
        /\ reserved' = [reserved EXCEPT ![BucketOf(p)] =
                            Clamped(@ - reservations[call[p].res].amount)]
    BY <1>6 DEF FoldExpired, AtFreeTotals, CallShape
  <2>2. reservations[call[p].res].amount \in Nat
    BY <2>1, UsageAssumption DEF UsageAssumption, TypeOK, Reservation
  <2>3. reserved'[b] = IF b = BucketOf(p) THEN Clamped(reserved[b] - reservations[call[p].res].amount)
                                          ELSE reserved[b]
    BY <2>1 DEF TypeOK
  <2>4. reserved'[b] <= reserved[b]
    BY <1>0, <2>2, <2>3 DEF Clamped
  <2>5. QED
    BY <1>1, <2>1, <2>4
<1>7. ASSUME NEW p \in Procs, FoldAdjust(p) PROVE Eased(b)
  <2> DEFINE event == [kind |-> "adjustment", bucket |-> call[p].bucket,
                       amount |-> call[p].amount, reservation |-> None]
  <2>1. /\ pc[p] = "fold" /\ call[p].op = "adjust" /\ call[p].bucket \in Buckets
        /\ usage_events' = [usage_events EXCEPT ![call[p].key] = event]
        /\ used' = [used EXCEPT ![call[p].bucket] = @ + call[p].amount]
        /\ reserved' = reserved
    BY <1>7 DEF FoldAdjust, AtFreeTotals, CallShape, WithUsed
  <2>2. call[p].key \in EventKeys /\ usage_events[call[p].key].kind = "none"
    BY <2>1 DEF LockInv, HoldsNeeded, KeysLocked, CallShape
  <2>3. call[p].amount \in (-MaxAmount)..MaxAmount /\ call[p].amount \in Int
    BY DEF TypeOK, Call
  <2>4. /\ event \in Event /\ usage_events[call[p].key] = NoEvent
        /\ event.bucket = call[p].bucket /\ event.kind = "adjustment"
        /\ event.amount = call[p].amount
    BY <2>1, <2>2, <2>3 DEF Event, Blank
  <2> HIDE DEF event
  <2>5. Granted(b)' = Granted(b) + (IF call[p].bucket = b /\ call[p].amount > 0
                                    THEN call[p].amount ELSE 0)
    BY <2>1, <2>2, <2>4, ChargedMore
  <2>6. used'[b] = IF b = call[p].bucket THEN used[b] + call[p].amount ELSE used[b]
    BY <2>1 DEF TypeOK
  <2>7. QED
    BY <1>0, <1>7, <2>1, <2>3, <2>5, <2>6 DEF Eased
<1>8. ASSUME NEW p \in Procs, SweepCommit(p) PROVE Eased(b)
  <2>1. LockedRows(p) \in SUBSET ResKeys
    BY DEF LockedRows
  <2>2. Freed(LockedRows(p), b) \in Nat
    BY <2>1, FreedType
  <2>3. /\ reserved'[b] = Clamped(reserved[b] - Freed(LockedRows(p), b))
        /\ used' = used /\ usage_events' = usage_events
    BY <1>8 DEF SweepCommit
  <2>4. reserved'[b] <= reserved[b]
    BY <1>0, <2>2, <2>3 DEF Clamped
  <2>5. QED
    BY <1>1, <2>3, <2>4
<1>9. CASE UNCHANGED <<usage_events, used, reserved>>
  BY <1>0, <1>1, <1>9
<1>10. QED
  BY <1>2, <1>3, <1>4, <1>5, <1>6, <1>7, <1>8, <1>9
  DEF Next, Request, BeginReserve, BeginCharge, BeginCommit, BeginRelease, BeginAdjust,
      Statement, LockTotals, LockStale, Decide, FoundTerminal, LockRow, InsertReplayed,
      InsertEvent, Sweep, SweepStart, SweepRows, SweepTotals, Abort, Tick, Procs, vars, tables

(* The rows themselves never charge and hold more than the largest limit a  *)
(* caller was given plus what operators added, whatever calls are decided   *)
(* at the same time.                                                        *)
THEOREM QuotaHolds == Spec => []NoOversubscription
<1>1. Init => NoOversubscription
  <2>1. Init => \A b \in Buckets : Charged(b) + Held(b) = 0 /\ Granted(b) \in Nat
    <3> SUFFICES ASSUME Init, NEW b \in Buckets
                 PROVE  Charged(b) + Held(b) = 0 /\ Granted(b) \in Nat
      OBVIOUS
    <3>1. Charged(b) = 0 /\ Held(b) = 0
      BY LedgerInit DEF LedgerInv, Totals, ReservedIsHeld, UsedIsLedger, Init
    <3>2. QED
      BY <3>1, TypeInit, GrantedSum DEF GrantedInNat
  <2>2. QED
    BY <2>1 DEF NoOversubscription
<1>2. LedgerInv /\ NoOversubscription /\ [Next]_vars => (LedgerInv /\ NoOversubscription)'
  <2> SUFFICES ASSUME LedgerInv, NoOversubscription, [Next]_vars
               PROVE  LedgerInv' /\ NoOversubscription'
    OBVIOUS
  <2>1. LedgerInv'
    BY LedgerStep
  <2>2. ASSUME Unlimited \notin Limits, NEW b \in Buckets
        PROVE  \E limit \in Limits \cup {0} : Charged(b)' + Held(b)' <= limit + Granted(b)'
    <3>1. PICK limit \in Limits \cup {0} : Charged(b) + Held(b) <= limit + Granted(b)
      BY <2>2 DEF NoOversubscription
    <3>2. /\ used[b] = Charged(b) /\ reserved[b] = Held(b)
          /\ used'[b] = Charged(b)' /\ reserved'[b] = Held(b)'
      BY <2>1 DEF LedgerInv, Totals, ReservedIsHeld, UsedIsLedger
    <3>3. /\ used[b] \in Int /\ used'[b] \in Int /\ reserved[b] \in Int /\ reserved'[b] \in Int
          /\ Granted(b) \in Int /\ Granted(b)' \in Int
      <4>1. TypeOK /\ TypeOK'
        BY <2>1 DEF LedgerInv
      <4>2. GrantedInNat /\ GrantedInNat'
        BY <4>1, GrantedSum, PTL
      <4>3. QED
        BY <4>1, <4>2 DEF TypeOK, GrantedInNat
    <3>4. limit \in Int
      BY <2>2, LimitType
    <3>5. CASE Eased(b)
      <4>1. used[b] + reserved[b] <= limit + Granted(b)
        BY <3>1, <3>2
      <4>2. used'[b] + reserved'[b] <= limit + Granted(b)'
        BY <3>3, <3>4, <3>5, <4>1 DEF Eased
      <4>3. QED
        BY <3>2, <4>2
    <3>6. ASSUME NEW p \in Procs, Admitted(p, b)
          PROVE  \E l \in Limits \cup {0} : Charged(b)' + Held(b)' <= l + Granted(b)'
      <4>1. call[p].limit \in Limits /\ call[p].limit # Unlimited
        BY <2>2, <3>6 DEF Admitted, LedgerInv, CallShape
      <4>2. QED
        BY <3>2, <3>6, <4>1 DEF Admitted
    <3>7. QED
      BY <2>1, <3>5, <3>6, SumsMove
  <2>3. QED
    BY <2>1, <2>2 DEF NoOversubscription
<1>3. QED
  BY <1>1, <1>2, LedgerInit, PTL DEF Spec
------------------------------------------------------------------------------
(* Thresholds.                                                              *)
OneLimitNoCredit ==
    /\ Unlimited \notin Limits /\ \A limit \in Limits : Limits = {limit}
    /\ \A a \in AdjustAmounts : a < 0

(* Usage that grows past a threshold is reported by the step that does it. *)
LEMMA GrowthReported ==
    ASSUME LedgerInv, [Next]_vars, OneLimitNoCredit, NEW b \in Buckets, NEW limit \in Limits
    PROVE  /\ outbox \subseteq outbox'
           /\ \/ used'[b] <= used[b]
              \/ ThresholdKeys(b, used[b], used'[b], limit) \subseteq outbox'
<1> USE DEF LedgerInv
<1>1. \A l \in Limits : l = limit
  BY DEF OneLimitNoCredit
<1>2. used[b] \in Int
  BY DEF TypeOK
<1>3. ASSUME NEW p \in Procs, Charge(p)
      PROVE  used'[b] <= used[b] \/ ThresholdKeys(b, used[b], used'[b], limit) \subseteq outbox'
  <2>1. call[p].limit = limit
    BY <1>1, <1>3 DEF Charge, Decided, CallShape
  <2>2. CASE b = call[p].bucket
    BY <1>3, <2>1, <2>2 DEF Charge, WithUsed, TypeOK
  <2>3. CASE b # call[p].bucket
    BY <1>2, <1>3, <2>3 DEF Charge, WithUsed, TypeOK
  <2>4. QED
    BY <2>2, <2>3
<1>4. ASSUME NEW p \in Procs, FoldCommit(p)
      PROVE  used'[b] <= used[b] \/ ThresholdKeys(b, used[b], used'[b], limit) \subseteq outbox'
  <2>1. call[p].limit = limit
    BY <1>1, <1>4 DEF FoldCommit, AtFreeTotals, CallShape
  <2>2. CASE b = BucketOf(p)
    BY <1>4, <2>1, <2>2 DEF FoldCommit, WithUsed, TypeOK
  <2>3. CASE b # BucketOf(p)
    BY <1>2, <1>4, <2>3 DEF FoldCommit, WithUsed, TypeOK
  <2>4. QED
    BY <2>2, <2>3
<1>5. ASSUME NEW p \in Procs, FoldAdjust(p) PROVE used'[b] <= used[b]
  <2>1. call[p].amount \in Int /\ call[p].amount < 0
    BY <1>5 DEF FoldAdjust, AtFreeTotals, CallShape, TypeOK, Call, OneLimitNoCredit
  <2>2. used'[b] = IF b = BucketOf(p) THEN used[b] + call[p].amount ELSE used[b]
    <3>1. used' = [used EXCEPT ![BucketOf(p)] = @ + call[p].amount]
      BY <1>5 DEF FoldAdjust, WithUsed, AtFreeTotals, BucketOf
    <3>2. QED
      BY <3>1 DEF TypeOK
  <2>3. QED
    BY <1>2, <2>1, <2>2
<1>6. ASSUME used' = used PROVE used'[b] <= used[b]
  <2>1. used'[b] = used[b]
    BY <1>6
  <2>2. QED
    BY <1>2, <2>1
<1>7. used'[b] <= used[b] \/ ThresholdKeys(b, used[b], used'[b], limit) \subseteq outbox'
  BY <1>3, <1>4, <1>5, <1>6
  DEF Next, Request, BeginReserve, BeginCharge, BeginCommit, BeginRelease, BeginAdjust,
      Statement, LockTotals, LockStale, Decide, ReserveDenied, ReserveReplayed, Reserve,
      ChargeDenied, ChargeReplayed, ExpireOnly, FoundTerminal, LockRow, InsertReplayed,
      InsertEvent, FoldExpired, Sweep, SweepStart, SweepRows, SweepTotals, SweepCommit,
      Abort, Tick, Procs, vars, tables
<1>8. outbox \subseteq outbox'
  BY DEF Next, Request, BeginReserve, BeginCharge, BeginCommit, BeginRelease, BeginAdjust,
      Statement, LockTotals, LockStale, Decide, ReserveDenied, ReserveReplayed, Reserve,
      ChargeDenied, ChargeReplayed, Charge, FoundTerminal, LockRow, InsertReplayed,
      InsertEvent, FoldCommit, FoldExpired, FoldAdjust, Sweep, SweepStart, SweepRows,
      SweepTotals, SweepCommit, Abort, Tick, Procs, vars, tables
<1>9. QED
  BY <1>7, <1>8

(* With one limit and no adjustment upwards, usage at or past a threshold   *)
(* has been reported, whichever transaction took it there.                  *)
THEOREM ThresholdsReported == Spec => []ThresholdReported
<1>1. Init => ThresholdReported
  <2> SUFFICES ASSUME Init, OneLimitNoCredit, NEW b \in Buckets, NEW pct \in Percents,
                      NEW limit \in Limits, limit > 0
               PROVE  ~(used[b] * 100 >= limit * pct)
    BY DEF ThresholdReported, OneLimitNoCredit
  <2>1. limit \in Nat \ {0} /\ pct \in Nat \ {0}
    BY LimitType, UsageAssumption DEF UsageAssumption, OneLimitNoCredit
  <2>2. limit * pct > 0
    BY <2>1
  <2>3. used[b] = 0
    BY DEF Init
  <2>4. QED
    BY <2>1, <2>2, <2>3
<1>2. LedgerInv /\ ThresholdReported /\ [Next]_vars => (LedgerInv /\ ThresholdReported)'
  <2> SUFFICES ASSUME LedgerInv, ThresholdReported, [Next]_vars
               PROVE  LedgerInv' /\ ThresholdReported'
    OBVIOUS
  <2>1. LedgerInv'
    BY LedgerStep
  <2>2. ASSUME OneLimitNoCredit, NEW b \in Buckets, NEW pct \in Percents,
               NEW limit \in Limits, limit > 0, used'[b] * 100 >= limit * pct
        PROVE  <<"quota_threshold_reached", b, pct>> \in outbox'
    <3>1. used[b] \in Int /\ used'[b] \in Int
      BY <2>1 DEF LedgerInv, TypeOK
    <3>2. limit \in Int /\ pct \in Int /\ limit * pct \in Int /\ limit # Unlimited
      BY <2>2, LimitType, UsageAssumption DEF UsageAssumption, OneLimitNoCredit
    <3>3. CASE used[b] * 100 >= limit * pct
      BY <2>2, <3>3, GrowthReported DEF ThresholdReported, OneLimitNoCredit
    <3>4. CASE ~(used[b] * 100 >= limit * pct)
      <4>1. used[b] * 100 < limit * pct /\ ~(used'[b] <= used[b])
        BY <2>2, <3>1, <3>2, <3>4
      <4>2. pct \in Crossed(used[b], used'[b], limit)
        BY <2>2, <3>2, <4>1 DEF Crossed
      <4>3. <<"quota_threshold_reached", b, pct>> \in ThresholdKeys(b, used[b], used'[b], limit)
        BY <4>2 DEF ThresholdKeys
      <4>4. QED
        BY <2>2, <4>1, <4>3, GrowthReported
    <3>5. QED
      BY <3>3, <3>4
  <2>3. QED
    BY <2>1, <2>2 DEF ThresholdReported, OneLimitNoCredit
<1>3. QED
  BY <1>1, <1>2, LedgerInit, PTL DEF Spec
------------------------------------------------------------------------------
(* The refinement.  The holds of QuotaLedger are the rows without deadlines. *)
HoldOf(row) == [status |-> row.status, bucket |-> row.bucket, amount |-> row.amount]
Holds == [r \in ResKeys |-> HoldOf(reservations[r])]

(* FiniteSets is instantiated with QuotaLedger: its cardinality is the same. *)
LEMMA SameCardinality == \A S : Promise!Cardinality(S) = Cardinality(S)
BY Zenon DEF Promise!Cardinality, Cardinality, Promise!IsFiniteSet, IsFiniteSet

(* The sums of the promise are the sums of the tables. *)
PromiseSums ==
    /\ \A b : Promise!Pending(b) = Pending(b) /\ Promise!Charged(b) = Charged(b)
    /\ \A S \in SUBSET ResKeys : Promise!UnitsOf(S) = UnitsOf(S)

LEMMA PromiseSumsSame == PromiseSums
<1>1. ASSUME NEW b PROVE Promise!Pending(b) = Pending(b)
  BY DEF Promise!Pending, Pending
<1>2. ASSUME NEW b PROVE Promise!Charged(b) = Charged(b)
  BY SameCardinality DEF Promise!Charged, Charged, Promise!Amounts, Amounts
<1>3. ASSUME NEW S \in SUBSET ResKeys PROVE Promise!UnitsOf(S) = UnitsOf(S)
  <2>1. \A u \in S \X Amounts :
           [r \in ResKeys |-> HoldOf(reservations[r])][u[1]].amount = reservations[u[1]].amount
    BY DEF HoldOf
  <2>2. QED
    BY <2>1 DEF Promise!UnitsOf, UnitsOf, Promise!Amounts, Amounts, HoldOf
<1>4. QED
  BY <1>1, <1>2, <1>3 DEF PromiseSums

LEMMA LapseIsSettled ==
    ASSUME TypeOK, NEW S \in SUBSET ResKeys
    PROVE  Promise!Lapse(S) = [r \in ResKeys |-> HoldOf(Settled(S, "expired")[r])]
BY DEF Promise!Lapse, HoldOf, Settled, TypeOK, Reservation

(* What stays held of a bucket when some of its holds lapse. *)
LEMMA HeldRest ==
    ASSUME TypeOK, NEW b \in Buckets, NEW S \in SUBSET ResKeys,
           \A r \in S : reservations[r].status = "pending" /\ reservations[r].bucket = b
    PROVE  /\ S \in SUBSET Pending(b)
           /\ Held(b) = Freed(S, b) + Cardinality(UnitsOf(Pending(b) \ S))
           /\ Freed(S, b) \in Nat /\ Cardinality(UnitsOf(Pending(b) \ S)) \in Nat
<1> DEFINE P == Pending(b)
<1>1. S \subseteq P /\ P \subseteq ResKeys /\ {r \in S : reservations[r].bucket = b} = S
  BY DEF Pending
<1>2. /\ Held(b) = Cardinality(Units(P, AmountOf))
      /\ Freed(S, b) = Cardinality(Units(S, AmountOf))
      /\ UnitsOf(P \ S) = Units(P \ S, AmountOf)
  BY <1>1, SumsAreUnits DEF SumsAsUnits, Freed
<1> HIDE DEF P
<1>3. IsFiniteSet(S) /\ IsFiniteSet(P \ S) /\ S \cap (P \ S) = {} /\ S \cup (P \ S) = P
  BY <1>1, KeysFinite
<1>4. Cardinality(Units(S \cup (P \ S), AmountOf))
        = Cardinality(Units(S, AmountOf)) + Cardinality(Units(P \ S, AmountOf))
  BY <1>3, UnitsSplit
<1>5. Cardinality(Units(S, AmountOf)) \in Nat /\ Cardinality(Units(P \ S, AmountOf)) \in Nat
  BY <1>3, UnitsCount
<1>6. QED
  BY <1>1, <1>2, <1>3, <1>4, <1>5 DEF P

(* What a decision admitted is admitted by the promise, on the rows.        *)
LEMMA AdmissionKept ==
    ASSUME LedgerInv, NEW p \in Procs, pc[p] = "decided", call[p].outcome = "allow"
    PROVE  /\ Stale(p) \in SUBSET Pending(call[p].bucket)
           /\ Promise!Admits(call[p].bucket, call[p].amount, call[p].limit, Stale(p))
<1> DEFINE b == call[p].bucket
<1>1. b \in Buckets /\ Stale(p) \in SUBSET ResKeys
  BY DEF LedgerInv, CallShape, Stale, Overdue
<1>2. \A r \in Stale(p) : reservations[r].status = "pending" /\ reservations[r].bucket = b
  BY DEF Stale, Overdue
<1>3. /\ Stale(p) \in SUBSET Pending(b)
      /\ Held(b) = Freed(Stale(p), b) + Cardinality(UnitsOf(Pending(b) \ Stale(p)))
      /\ Freed(Stale(p), b) \in Nat /\ Cardinality(UnitsOf(Pending(b) \ Stale(p))) \in Nat
  BY <1>1, <1>2, HeldRest DEF LedgerInv
<1>4. reserved[b] = Held(b) /\ used[b] = Charged(b)
  BY <1>1 DEF LedgerInv, Totals, ReservedIsHeld, UsedIsLedger
<1>5. ReservedNow(p) = Cardinality(UnitsOf(Pending(b) \ Stale(p)))
  BY <1>3, <1>4 DEF ReservedNow, Clamped
<1>6. Fits(call[p].amount, Charged(b), Cardinality(UnitsOf(Pending(b) \ Stale(p))), call[p].limit)
  BY <1>4, <1>5 DEF LedgerInv, DecisionStands
<1>7. Pending(b) \ Stale(p) \in SUBSET ResKeys
  BY DEF Pending
<1> HIDE DEF b
<1>8. /\ Promise!Charged(b) = Charged(b) /\ Promise!Pending(b) = Pending(b)
      /\ Promise!UnitsOf(Pending(b) \ Stale(p)) = UnitsOf(Pending(b) \ Stale(p))
  BY <1>7, PromiseSumsSame DEF PromiseSums
<1>9. Promise!Admits(b, call[p].amount, call[p].limit, Stale(p))
  <2>1. ASSUME call[p].limit # Unlimited
        PROVE  call[p].amount <= call[p].limit - Promise!Charged(b)
                  - Promise!Cardinality(Promise!UnitsOf(Promise!Pending(b) \ Stale(p)))
    BY <1>6, <1>8, <2>1, SameCardinality DEF Fits
  <2>2. QED
    BY <2>1 DEF Promise!Admits
<1>10. QED
  BY <1>3, <1>9 DEF b

LEMMA PromiseStep == LedgerInv /\ [Next]_vars => [Promise!Next]_(Promise!vars)
<1> SUFFICES ASSUME LedgerInv, [Next]_vars PROVE [Promise!Next]_(Promise!vars)
  OBVIOUS
<1>0. TypeOK /\ CallShape /\ LockInv /\ Blank
  BY DEF LedgerInv
<1>1. CASE UNCHANGED <<reservations, usage_events>>
  BY <1>1 DEF Promise!vars
(* Holds of S lapse. *)
<1>2. ASSUME NEW S \in SUBSET ResKeys, \A r \in S : reservations[r].status = "pending",
             reservations' = Settled(S, "expired"), usage_events' = usage_events
      PROVE  Promise!Next
  <2>1. Promise!Expire(S)
    BY <1>0, <1>2, LapseIsSettled DEF Promise!Expire, HoldOf
  <2>2. QED
    BY <2>1 DEF Promise!Next
<1>3. \A p \in Procs : /\ Stale(p) \in SUBSET ResKeys
                       /\ \A r \in Stale(p) : reservations[r].status = "pending"
  BY DEF Stale, Overdue
<1>4. ASSUME NEW p \in Procs,
             ReserveDenied(p) \/ ReserveReplayed(p) \/ ChargeDenied(p) \/ ChargeReplayed(p)
      PROVE  Promise!Next
  BY <1>2, <1>3, <1>4
  DEF ReserveDenied, ReserveReplayed, ChargeDenied, ChargeReplayed, ExpireOnly
<1>5. ASSUME NEW p \in Procs, Reserve(p) PROVE Promise!Next
  <2>0. PICK r \in ResKeys, b \in Buckets, amount \in Amounts, limit \in Limits :
           /\ r = call[p].res /\ b = call[p].bucket
           /\ amount = call[p].amount /\ limit = call[p].limit
    BY <1>0, <1>5 DEF Reserve, Decided, CallShape
  <2>00. PICK lapsed \in SUBSET Pending(b) : lapsed = Stale(p)
    BY <2>0, <1>5, AdmissionKept DEF Reserve, Decided
  <2> DEFINE row == [status |-> "pending", bucket |-> b, amount |-> amount,
                     expires_at |-> Deadline]
  <2>1. /\ pc[p] = "decided" /\ call[p].outcome = "allow"
        /\ reservations[r].status = "absent" /\ usage_events' = usage_events
        /\ reservations' = [Settled(Stale(p), "expired") EXCEPT ![r] = row]
    BY <1>5, <2>0 DEF Reserve, Decided
  <2>2. Holds[r] = Promise!NoHold
    BY <1>0, <2>1 DEF Blank, Holds, HoldOf, Absent, Promise!NoHold
  <2>3. [q \in ResKeys |-> HoldOf(reservations'[q])]
           = [Promise!Lapse(lapsed) EXCEPT
                 ![r] = [status |-> "pending", bucket |-> b, amount |-> amount]]
    <3>1. HoldOf(row) = [status |-> "pending", bucket |-> b, amount |-> amount]
      BY DEF HoldOf
    <3>2. \A q \in ResKeys : reservations'[q] = IF q = r THEN row
                                                ELSE Settled(lapsed, "expired")[q]
      BY <2>1, <2>00 DEF Settled, Pending
    <3>3. Promise!Lapse(lapsed) = [q \in ResKeys |-> HoldOf(Settled(lapsed, "expired")[q])]
      BY <1>0, LapseIsSettled DEF Pending
    <3> HIDE DEF row
    <3>4. QED
      BY <3>1, <3>2, <3>3
  <2>4. Promise!Admits(b, amount, limit, lapsed)
    BY <2>0, <2>00, <2>1, AdmissionKept
  <2>5. Promise!Hold(r, b, amount, limit, lapsed)
    BY <2>1, <2>2, <2>3, <2>4 DEF Promise!Hold, Holds, HoldOf
  <2>6. lapsed \in SUBSET Promise!Pending(b) /\ amount \in Promise!Amounts
    BY PromiseSumsSame DEF PromiseSums, Promise!Amounts, Amounts
  <2>7. QED
    BY <2>5, <2>6 DEF Promise!Next
<1>6. ASSUME NEW p \in Procs, Charge(p) PROVE Promise!Next
  <2>0. PICK k \in EventKeys, b \in Buckets, amount \in Amounts, limit \in Limits :
           /\ k = call[p].key /\ b = call[p].bucket
           /\ amount = call[p].amount /\ limit = call[p].limit
    BY <1>0, <1>6 DEF Charge, Decided, CallShape
  <2>00. PICK lapsed \in SUBSET Pending(b) : lapsed = Stale(p)
    BY <2>0, <1>6, AdmissionKept DEF Charge, Decided
  <2>1. /\ pc[p] = "decided" /\ call[p].outcome = "allow" /\ usage_events[k].kind = "none"
        /\ reservations' = Settled(lapsed, "expired")
        /\ usage_events' = [usage_events EXCEPT
              ![k] = [kind |-> "commit", bucket |-> b, amount |-> amount,
                      reservation |-> None]]
    BY <1>6, <2>0, <2>00 DEF Charge, Decided
  <2>2. usage_events[k] = Promise!NoEvent
    BY <1>0, <2>1 DEF Blank, NoEvent, Promise!NoEvent
  <2>3. [q \in ResKeys |-> HoldOf(reservations'[q])] = Promise!Lapse(lapsed)
    BY <1>0, <2>1, LapseIsSettled DEF Pending
  <2>4. Promise!Admits(b, amount, limit, lapsed)
    BY <2>0, <2>00, <2>1, AdmissionKept
  <2>5. Promise!Charge(k, b, amount, limit, lapsed)
    BY <2>1, <2>2, <2>3, <2>4 DEF Promise!Charge, HoldOf
  <2>6. lapsed \in SUBSET Promise!Pending(b) /\ amount \in Promise!Amounts
    BY PromiseSumsSame DEF PromiseSums, Promise!Amounts, Amounts
  <2>7. QED
    BY <2>5, <2>6 DEF Promise!Next
<1>7. ASSUME NEW p \in Procs, FoldCommit(p) PROVE Promise!Next
  <2>0. PICK r \in ResKeys, k \in EventKeys : r = call[p].res /\ k = call[p].key
    BY <1>0, <1>7 DEF FoldCommit, AtFreeTotals, CallShape
  <2>1. /\ pc[p] = "fold" /\ call[p].op = "commit" /\ call[p].outcome = "committed"
        /\ reservations' = Settled({r}, "committed")
        /\ usage_events' = [usage_events EXCEPT
              ![k] = [kind |-> "commit", bucket |-> reservations[r].bucket,
                      amount |-> reservations[r].amount, reservation |-> r]]
    BY <1>0, <1>7, <2>0 DEF FoldCommit, AtFreeTotals, CallShape, BucketOf
  <2>2. reservations[r].status = "pending" /\ usage_events[k].kind = "none"
    BY <1>0, <2>0, <2>1 DEF LockInv, HoldsNeeded, RowsLocked, KeysLocked
  <2>3. usage_events[k] = Promise!NoEvent
    BY <1>0, <2>1, <2>2 DEF Blank, NoEvent, Promise!NoEvent
  <2>4. Promise!Convert(r, k)
    <3>1. [q \in ResKeys |-> HoldOf(reservations'[q])] = [Holds EXCEPT ![r].status = "committed"]
      BY <1>0, <2>1 DEF Holds, HoldOf, Settled, TypeOK, Reservation
    <3>2. QED
      BY <2>1, <2>2, <2>3, <3>1 DEF Promise!Convert, Holds, HoldOf
  <2>5. QED
    BY <2>1, <2>4 DEF Promise!Next
<1>8. ASSUME NEW p \in Procs, FoldExpired(p) PROVE Promise!Next
  <2>0. PICK r \in ResKeys : r = call[p].res
    BY <1>0, <1>8 DEF FoldExpired, AtFreeTotals, CallShape
  <2>1. /\ pc[p] = "fold" /\ call[p].op \in {"commit", "release"}
        /\ call[p].outcome \in {"expired", "released"}
        /\ reservations' = Settled({r}, call[p].outcome) /\ usage_events' = usage_events
    BY <1>0, <1>8, <2>0 DEF FoldExpired, AtFreeTotals, CallShape
  <2>2. reservations[r].status = "pending"
    BY <1>0, <2>0, <2>1 DEF LockInv, HoldsNeeded, RowsLocked
  <2>3. CASE call[p].outcome = "expired"
    <3>1. {r} \in SUBSET ResKeys /\ \A q \in {r} : reservations[q].status = "pending"
      BY <2>1, <2>2
    <3>2. QED
      BY <1>2, <2>1, <2>3, <3>1
  <2>4. CASE call[p].outcome = "released"
    <3>1. [q \in ResKeys |-> HoldOf(reservations'[q])] = [Holds EXCEPT ![r].status = "released"]
      BY <1>0, <2>1, <2>4 DEF Holds, HoldOf, Settled, TypeOK, Reservation
    <3>2. Promise!Release(r)
      BY <2>1, <2>2, <3>1 DEF Promise!Release, Holds, HoldOf
    <3>3. QED
      BY <2>1, <3>2 DEF Promise!Next
  <2>5. QED
    BY <2>1, <2>3, <2>4
<1>9. ASSUME NEW p \in Procs, FoldAdjust(p) PROVE Promise!Next
  <2> DEFINE k == call[p].key
  <2>1. /\ pc[p] = "fold" /\ call[p].op = "adjust" /\ k \in EventKeys
        /\ call[p].bucket \in Buckets /\ call[p].amount \in AdjustAmounts
        /\ reservations' = reservations
        /\ usage_events' = [usage_events EXCEPT
              ![k] = [kind |-> "adjustment", bucket |-> call[p].bucket,
                      amount |-> call[p].amount, reservation |-> None]]
    BY <1>0, <1>9 DEF FoldAdjust, AtFreeTotals, CallShape
  <2>2. usage_events[k].kind = "none"
    BY <1>0, <2>1 DEF LockInv, HoldsNeeded, KeysLocked
  <2>3. usage_events[k] = Promise!NoEvent
    BY <1>0, <2>1, <2>2 DEF Blank, NoEvent, Promise!NoEvent
  <2>4. Promise!Adjust(k, call[p].bucket, call[p].amount)
    BY <2>1, <2>3 DEF Promise!Adjust
  <2>5. call[p].amount \in (-MaxAmount)..MaxAmount /\ call[p].amount # 0
    <3>1. call[p].amount \in (-MaxAmount)..MaxAmount
      BY <1>0 DEF TypeOK, Call
    <3>2. 0 \notin AdjustAmounts
      BY UsageAssumption DEF UsageAssumption
    <3>3. QED
      BY <2>1, <3>1, <3>2
  <2>6. QED
    BY <2>1, <2>4, <2>5 DEF Promise!Next
<1>10. ASSUME NEW p \in Procs, SweepCommit(p) PROVE Promise!Next
  <2>1. /\ LockedRows(p) \in SUBSET ResKeys
        /\ \A r \in LockedRows(p) : reservations[r].status = "pending"
    BY <1>0 DEF LockedRows, LockInv, RowsLocked
  <2>2. QED
    BY <1>2, <1>10, <2>1 DEF SweepCommit
<1>11. QED
  BY <1>1, <1>4, <1>5, <1>6, <1>7, <1>8, <1>9, <1>10
  DEF Next, Request, BeginReserve, BeginCharge, BeginCommit, BeginRelease, BeginAdjust,
      Statement, LockTotals, LockStale, Decide, FoundTerminal, LockRow, InsertReplayed,
      InsertEvent, Sweep, SweepStart, SweepRows, SweepTotals, Abort, Tick, Procs, vars, tables

(* The transactions implement the promise: each COMMIT is one atomic step   *)
(* of QuotaLedger, decided on the rows themselves, and every other step is  *)
(* invisible there.                                                         *)
THEOREM PromiseKept == Spec => ImplementsPromise
<1>1. Init => Promise!Init
  BY DEF Init, Promise!Init, Absent, NoEvent, Promise!NoHold, Promise!NoEvent
<1>2. LedgerInv /\ [Next]_vars => [Promise!Next]_(Promise!vars)
  BY PromiseStep
<1>3. QED
  BY <1>1, <1>2, LedgerInit, LedgerStep, PTL DEF Spec, ImplementsPromise, Promise!Spec
==============================================================================
