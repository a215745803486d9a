----------------------------- MODULE UsageLedger -----------------------------
(***************************************************************************)
(* Usage metering as it runs: the reserve, commit, release and adjustment  *)
(* transactions and the expiry sweep of api/src/repositories, interleaved  *)
(* statement by statement under Postgres READ COMMITTED.                   *)
(*                                                                         *)
(* A process runs one transaction at a time.  A statement that may have to *)
(* wait for a row or a unique key is a step of its own; the statements     *)
(* after the last wait, with COMMIT, are one step, since nobody else sees  *)
(* or delays them.  Writes reach the tables at COMMIT.  A transaction may  *)
(* be rolled back at any point (a client that disconnects, a restart, the  *)
(* victim of a deadlock).                                                  *)
(*                                                                         *)
(* A call that finds its answer in its first read (a replay, an unknown    *)
(* reservation, a sweep with nothing to do) changes nothing and is not a   *)
(* step.  Rows are named by their idempotency keys, which the unique       *)
(* constraints make identifiers.  quota_decisions and outbox_events are    *)
(* kept as the sets of what was written.                                   *)
(***************************************************************************)
EXTENDS Integers, FiniteSets

CONSTANTS
    ResKeys,        \* usage_reservations: (customer, idempotency key)
    EventKeys,      \* usage_events: (customer, idempotency key)
    Buckets,        \* usage_period_totals: (customer, meter, period)
    Clients,        \* request handlers
    Sweepers,       \* workers::usage, one per running instance
    MaxAmount,      \* bound on requested and adjusted amounts
    AdjustAmounts,  \* signed amounts operators adjust by
    Limits,         \* limits the entitlements of the callers give
    Unlimited,      \* ... the limit of a meter without a quota row
    Percents,       \* USAGE_THRESHOLD_PERCENTS
    Ttl,            \* USAGE_RESERVATION_TTL_SECS
    Batch,          \* SWEEP_BATCH
    MaxClock,       \* bound on the clock
    None

Procs == Clients \cup Sweepers
Amounts == 1..MaxAmount

ASSUME UsageAssumption ==
    /\ IsFiniteSet(ResKeys) /\ IsFiniteSet(EventKeys) /\ IsFiniteSet(Buckets)
    /\ Clients \cap Sweepers = {}
    /\ None \notin ResKeys \cup EventKeys \cup Buckets \cup Procs
    /\ MaxAmount \in Nat \ {0}
    /\ AdjustAmounts \subseteq (-MaxAmount)..MaxAmount \ {0}
    /\ Limits \subseteq Nat \cup {Unlimited}
    /\ Unlimited \notin Int
    /\ Percents \subseteq 1..100
    /\ Ttl \in Nat \ {0}
    /\ Batch \in Nat \ {0}
    /\ MaxClock \in Nat

VARIABLES
    reservations,   \* committed rows of usage_reservations
    usage_events,   \* committed rows of usage_events
    used, reserved, \* the columns of usage_period_totals
    decisions,      \* what quota_decisions records: <<request, verdict>>
    outbox,         \* delivery keys of outbox_events
    rowLock,        \* row locks on usage_reservations
    keyLock,        \* inserted but uncommitted keys of usage_events
    totLock,        \* row locks on usage_period_totals
    pc, call,       \* the statement a process is at, and its request
    clock

tables == <<reservations, usage_events, used, reserved, decisions, outbox>>
locks == <<rowLock, keyLock, totLock>>
vars == <<tables, locks, pc, call, clock>>

Terminal == {"committed", "released", "expired"}
Absent == [status |-> "absent", bucket |-> None, amount |-> 0, expires_at |-> 0]
NoEvent == [kind |-> "none", bucket |-> None, amount |-> 0, reservation |-> None]
Ask(op, r, k, b, amount, limit, start) ==
    [op |-> op, res |-> r, key |-> k, bucket |-> b, amount |-> amount,
     limit |-> limit, start |-> start, outcome |-> "none"]
NoCall == Ask("none", None, None, None, 0, Unlimited, 0)

Reservation == [status: Terminal \cup {"absent", "pending"}, bucket: Buckets \cup {None},
                amount: 0..MaxAmount, expires_at: 0..(MaxClock + Ttl)]
Event == [kind: {"none", "commit", "adjustment"}, bucket: Buckets \cup {None},
          amount: (-MaxAmount)..MaxAmount, reservation: ResKeys \cup {None}]
Call == [op: {"none", "reserve", "charge", "commit", "release", "adjust", "sweep"},
         bucket: Buckets \cup {None}, res: ResKeys \cup {None},
         key: EventKeys \cup {None}, amount: (-MaxAmount)..MaxAmount,
         limit: Limits \cup {Unlimited}, start: 0..MaxClock,
         outcome: Terminal \cup {"none", "allow", "deny"}]

TypeOK ==
    /\ reservations \in [ResKeys -> Reservation]
    /\ usage_events \in [EventKeys -> Event]
    /\ used \in [Buckets -> Int]
    /\ reserved \in [Buckets -> Nat]
    /\ decisions \subseteq (ResKeys \cup EventKeys) \X {"allow", "deny"}
    /\ rowLock \in [ResKeys -> Procs \cup {None}]
    /\ keyLock \in [EventKeys -> Procs \cup {None}]
    /\ totLock \in [Buckets -> Procs \cup {None}]
    /\ pc \in [Procs -> {"idle", "totals", "expire", "decided", "row", "insert", "fold"}]
    /\ call \in [Procs -> Call]
    /\ clock \in 0..MaxClock
------------------------------------------------------------------------------
(* Quantities.  A unit of row k is a pair <<k, i>>, so sums of amounts are  *)
(* cardinalities.                                                           *)

UnitsOf(S) == {u \in S \X Amounts : u[2] <= reservations[u[1]].amount}

Pending(b) == {r \in ResKeys : /\ reservations[r].status = "pending"
                               /\ reservations[r].bucket = b}

Held(b) == Cardinality(UnitsOf(Pending(b)))

Charged(b) ==
    LET units(sign) == {u \in EventKeys \X Amounts :
                            /\ usage_events[u[1]].bucket = b
                            /\ u[2] <= sign * usage_events[u[1]].amount}
    IN  Cardinality(units(1)) - Cardinality(units(-1))

(* greatest(0, reserved - amount) *)
Clamped(n) == IF n < 0 THEN 0 ELSE n

(* used = used + amount *)
Overwritten(b, amount) == [used EXCEPT ![b] = amount]           \* mutant
WithUsed(b, amount) == [used EXCEPT ![b] = @ + amount]

(* Utc::now() + ttl *)
TwiceDeadline == clock + 2 * Ttl                                \* mutant
Deadline == clock + Ttl

(* domain::usage::decide for a positive request. *)
Fits(amount, usedNow, reservedNow, limit) ==
    limit # Unlimited => amount <= limit - usedNow - reservedNow

(* domain::usage::crossed_thresholds *)
CrossedBeyond(before, after, limit) ==                          \* mutant
    {pct \in Percents : /\ limit # Unlimited /\ limit > 0
                        /\ before * 100 < limit * pct
                        /\ after * 100 > limit * pct}
Crossed(before, after, limit) ==
    {pct \in Percents : /\ limit # Unlimited /\ limit > 0
                        /\ before * 100 < limit * pct
                        /\ after * 100 >= limit * pct}

ThresholdKeys(b, before, after, limit) ==
    {<<"quota_threshold_reached", b, pct>> : pct \in Crossed(before, after, limit)}
------------------------------------------------------------------------------
(* Transactions.                                                            *)

LockedRows(p) == {r \in ResKeys : rowLock[r] = p}

(* The rows the expiring UPDATE of a transaction begun at start selects. *)
OverdueLater(start) == {r \in ResKeys : /\ reservations[r].status = "pending"
                                        /\ reservations[r].expires_at < start} \* mutant
Overdue(start) == {r \in ResKeys : /\ reservations[r].status = "pending"
                                   /\ reservations[r].expires_at <= start}

(* The bucket whose totals row the transaction folds its change into. *)
BucketOf(p) == IF call[p].op \in {"commit", "release"}
               THEN reservations[call[p].res].bucket
               ELSE call[p].bucket

Begin(p, where, request) ==
    /\ pc[p] = "idle"
    /\ pc' = [pc EXCEPT ![p] = where]
    /\ call' = [call EXCEPT ![p] = request]

KeptLocked(lock, p) == lock                                     \* mutant
Unlocked(lock, p) == [x \in DOMAIN lock |-> IF lock[x] = p THEN None ELSE lock[x]]

(* COMMIT and ROLLBACK both drop the locks; a rollback leaves the tables. *)
Finish(p) ==
    /\ rowLock' = Unlocked(rowLock, p)
    /\ keyLock' = Unlocked(keyLock, p)
    /\ totLock' = Unlocked(totLock, p)
    /\ pc' = [pc EXCEPT ![p] = "idle"]
    /\ call' = [call EXCEPT ![p] = NoCall]
    /\ UNCHANGED clock

Abort(p) ==
    /\ pc[p] # "idle"
    /\ Finish(p)
    /\ UNCHANGED tables

GoTo(p, where) == pc' = [pc EXCEPT ![p] = where]

(* status of the rows in S; the amounts they stop holding in bucket b. *)
SettledOrDeleted(S, status) ==                                  \* mutant
    [r \in ResKeys |-> IF r \notin S THEN reservations[r]
                       ELSE IF status = "committed" THEN [reservations[r] EXCEPT !.status = status]
                       ELSE Absent]
Settled(S, status) ==
    [r \in ResKeys |-> IF r \in S THEN [reservations[r] EXCEPT !.status = status]
                                  ELSE reservations[r]]

Freed(S, b) == Cardinality(UnitsOf({r \in S : reservations[r].bucket = b}))

Tick ==
    /\ clock < MaxClock
    /\ clock' = clock + 1
    /\ UNCHANGED <<tables, locks, pc, call>>
------------------------------------------------------------------------------
(* usage::reserve and the direct mode of usage::commit.                     *)

BeginReserve(p, r, b, amount, limit) ==
    /\ reservations[r].status = "absent"
    /\ Begin(p, "totals", Ask("reserve", r, None, b, amount, limit, clock))
    /\ UNCHANGED <<tables, locks, clock>>

BeginCharge(p, k, b, amount, limit) ==
    /\ usage_events[k].kind = "none"
    /\ Begin(p, "totals", Ask("charge", None, k, b, amount, limit, clock))
    /\ UNCHANGED <<tables, locks, clock>>

AnyTotals(b) == TRUE                                            \* mutant
FreeTotals(b) == totLock[b] = None

LockTotals(p) ==
    /\ pc[p] = "totals"
    /\ FreeTotals(call[p].bucket)
    /\ totLock' = [totLock EXCEPT ![call[p].bucket] = p]
    /\ GoTo(p, "expire")
    /\ UNCHANGED <<tables, rowLock, keyLock, call, clock>>

Stale(p) == {r \in Overdue(call[p].start) : reservations[r].bucket = call[p].bucket}

(* expire_stale_reservations waits for each row another transaction holds. *)
LockStale(p, r) ==
    /\ pc[p] = "expire"
    /\ r \in Stale(p)
    /\ rowLock[r] = None
    /\ rowLock' = [rowLock EXCEPT ![r] = p]
    /\ UNCHANGED <<tables, keyLock, totLock, pc, call, clock>>

ReservedBefore(p) == reserved[call[p].bucket]                   \* mutant
ReservedNow(p) == Clamped(reserved[call[p].bucket] - Freed(Stale(p), call[p].bucket))

(* The stale rows are expired, the totals re-read and the request decided. *)
Decide(p) ==
    LET b == call[p].bucket
        fits == Fits(call[p].amount, used[b], ReservedNow(p), call[p].limit)
    IN  /\ pc[p] = "expire"
        /\ \A r \in Stale(p) : rowLock[r] = p
        /\ GoTo(p, "decided")
        /\ call' = [call EXCEPT ![p].outcome = IF fits THEN "allow" ELSE "deny"]
        /\ UNCHANGED <<tables, locks, clock>>

Decided(p, op, verdict) ==
    /\ pc[p] = "decided"
    /\ call[p].op = op
    /\ call[p].outcome = verdict

(* A decision that admits nothing still commits the expiry it ran on. *)
ExpireOnly(p) ==
    /\ reservations' = Settled(Stale(p), "expired")
    /\ reserved' = [reserved EXCEPT ![call[p].bucket] = ReservedNow(p)]
    /\ UNCHANGED <<usage_events, used>>

ReserveDenied(p) ==
    /\ Decided(p, "reserve", "deny")
    /\ ExpireOnly(p)
    /\ decisions' = decisions \cup {<<call[p].res, "deny">>}
    /\ UNCHANGED outbox
    /\ Finish(p)

(* The insert found the row of a request that was faster. *)
ReserveReplayed(p) ==
    /\ Decided(p, "reserve", "allow")
    /\ reservations[call[p].res].status # "absent"
    /\ ExpireOnly(p)
    /\ decisions' = decisions \cup {<<call[p].res, "allow">>}
    /\ UNCHANGED outbox
    /\ Finish(p)

Reserve(p) ==
    LET b == call[p].bucket
    IN  /\ Decided(p, "reserve", "allow")
        /\ reservations[call[p].res].status = "absent"
        /\ reservations' = [Settled(Stale(p), "expired") EXCEPT
                ![call[p].res] = [status |-> "pending", bucket |-> b,
                                  amount |-> call[p].amount, expires_at |-> Deadline]]
        /\ reserved' = [reserved EXCEPT ![b] = ReservedNow(p) + call[p].amount]
        /\ decisions' = decisions \cup {<<call[p].res, "allow">>}
        /\ UNCHANGED <<usage_events, used, outbox>>
        /\ Finish(p)

ChargeDenied(p) ==
    /\ Decided(p, "charge", "deny")
    /\ ExpireOnly(p)
    /\ decisions' = decisions \cup {<<call[p].key, "deny">>}
    /\ outbox' = outbox \cup {<<"usage_commit_failed", call[p].key>>}
    /\ Finish(p)

ChargeReplayed(p) ==
    /\ Decided(p, "charge", "allow")
    /\ usage_events[call[p].key].kind # "none"
    /\ ExpireOnly(p)
    /\ decisions' = decisions \cup {<<call[p].key, "allow">>}
    /\ UNCHANGED outbox
    /\ Finish(p)

Charge(p) ==
    LET b == call[p].bucket
    IN  /\ Decided(p, "charge", "allow")
        /\ keyLock[call[p].key] = None
        /\ usage_events[call[p].key].kind = "none"
        /\ usage_events' = [usage_events EXCEPT
                ![call[p].key] = [kind |-> "commit", bucket |-> b,
                                  amount |-> call[p].amount, reservation |-> None]]
        /\ reservations' = Settled(Stale(p), "expired")
        /\ used' = WithUsed(b, call[p].amount)
        /\ reserved' = [reserved EXCEPT ![b] = ReservedNow(p)]
        /\ decisions' = decisions \cup {<<call[p].key, "allow">>}
        /\ outbox' = outbox \cup
               ThresholdKeys(b, used[b], used[b] + call[p].amount, call[p].limit)
        /\ Finish(p)
------------------------------------------------------------------------------
(* usage::commit of a reservation and usage::release: row lock first.       *)

(* The route has read the reservation, so the row exists; its status is not *)
(* looked at before the row is locked.                                      *)
BeginCommit(p, r, k, limit) ==
    /\ reservations[r].status # "absent"
    /\ usage_events[k].kind = "none"
    /\ Begin(p, "row", Ask("commit", r, k, None, 0, limit, 0))
    /\ UNCHANGED <<tables, locks, clock>>

BeginRelease(p, r) ==
    /\ reservations[r].status # "absent"
    /\ Begin(p, "row", Ask("release", r, None, None, 0, Unlimited, 0))
    /\ UNCHANGED <<tables, locks, clock>>

AtAnyRow(p) == pc[p] = "row"                                    \* mutant
AtFreeRow(p) ==
    /\ pc[p] = "row"
    /\ rowLock[call[p].res] = None

(* Not pending: ReservationNotCommittable, or AlreadyTerminal. *)
FoundTerminal(p) ==
    /\ AtFreeRow(p)
    /\ reservations[call[p].res].status # "pending"
    /\ Finish(p)
    /\ UNCHANGED tables

(* A live hold goes on to its event; an overdue one will be expired and a   *)
(* released one released, each once the totals row is free.                 *)
LockRow(p) ==
    LET row == reservations[call[p].res]
        live == call[p].op = "commit" /\ row.expires_at > clock
    IN  /\ AtFreeRow(p)
        /\ row.status = "pending"
        /\ rowLock' = [rowLock EXCEPT ![call[p].res] = p]
        /\ GoTo(p, IF live THEN "insert" ELSE "fold")
        /\ call' = [call EXCEPT ![p].outcome =
                IF live THEN "committed"
                ELSE IF call[p].op = "commit" THEN "expired" ELSE "released"]
        /\ UNCHANGED <<tables, keyLock, totLock, clock>>

(* admin::adjust_usage starts with the same insert, and locks no row. *)
BeginAdjust(p, k, b, amount) ==
    /\ Begin(p, "insert", Ask("adjust", None, k, b, amount, Unlimited, 0))
    /\ UNCHANGED <<tables, locks, clock>>

(* on conflict do nothing: the other insert committed, this call replays    *)
(* it; the reservation it locked stays pending.                             *)
InsertReplayed(p) ==
    /\ pc[p] = "insert"
    /\ usage_events[call[p].key].kind # "none"
    /\ Finish(p)
    /\ UNCHANGED tables

InsertEvent(p) ==
    /\ pc[p] = "insert"
    /\ keyLock[call[p].key] = None
    /\ usage_events[call[p].key].kind = "none"
    /\ keyLock' = [keyLock EXCEPT ![call[p].key] = p]
    /\ GoTo(p, "fold")
    /\ UNCHANGED <<tables, rowLock, totLock, call, clock>>

AtFreeTotals(p, op) ==
    /\ pc[p] = "fold"
    /\ call[p].op = op
    /\ FreeTotals(BucketOf(p))

FoldCommit(p) ==
    LET r == call[p].res
        b == BucketOf(p)
        amount == reservations[r].amount
    IN  /\ AtFreeTotals(p, "commit")
        /\ call[p].outcome = "committed"
        /\ usage_events' = [usage_events EXCEPT
                ![call[p].key] = [kind |-> "commit", bucket |-> b,
                                  amount |-> amount, reservation |-> r]]
        /\ reservations' = Settled({r}, "committed")
        /\ used' = WithUsed(b, amount)
        /\ reserved' = [reserved EXCEPT ![b] = Clamped(@ - amount)]
        /\ outbox' = outbox \cup ThresholdKeys(b, used[b], used[b] + amount, call[p].limit)
        /\ UNCHANGED decisions
        /\ Finish(p)

FoldExpired(p) ==
    LET r == call[p].res
    IN  /\ \/ AtFreeTotals(p, "commit") /\ call[p].outcome = "expired"
           \/ AtFreeTotals(p, "release")
        /\ reservations' = Settled({r}, call[p].outcome)
        /\ reserved' = [reserved EXCEPT ![BucketOf(p)] = Clamped(@ - reservations[r].amount)]
        /\ UNCHANGED <<usage_events, used, decisions, outbox>>
        /\ Finish(p)

FoldAdjust(p) ==
    LET b == call[p].bucket
    IN  /\ AtFreeTotals(p, "adjust")
        /\ usage_events' = [usage_events EXCEPT
                ![call[p].key] = [kind |-> "adjustment", bucket |-> b,
                                  amount |-> call[p].amount, reservation |-> None]]
        /\ used' = WithUsed(b, call[p].amount)
        /\ UNCHANGED <<reservations, reserved, decisions, outbox>>
        /\ Finish(p)
------------------------------------------------------------------------------
(* workers::usage: one sweep of sweep_expired_reservations.                 *)

(* The earliest overdue rows nobody has locked (for update skip locked). *)
SweepRows(p, S) ==
    LET free == {r \in Overdue(clock) : rowLock[r] = None}
    IN  /\ S \subseteq free
        /\ S # {}
        /\ Cardinality(S) <= Batch
        /\ Cardinality(S) < Batch => S = free
        /\ \A r \in S, q \in free \ S :
              reservations[r].expires_at <= reservations[q].expires_at
        /\ Begin(p, "fold", Ask("sweep", None, None, None, 0, Unlimited, 0))
        /\ rowLock' = [r \in ResKeys |-> IF r \in S THEN p ELSE rowLock[r]]
        /\ UNCHANGED <<tables, keyLock, totLock, clock>>

SweptBuckets(p) == {reservations[r].bucket : r \in LockedRows(p)}

SweepTotals(p, b) ==
    /\ pc[p] = "fold"
    /\ call[p].op = "sweep"
    /\ b \in SweptBuckets(p)
    /\ FreeTotals(b)
    /\ totLock' = [totLock EXCEPT ![b] = p]
    /\ UNCHANGED <<tables, rowLock, keyLock, pc, call, clock>>

SweepCommit(p) ==
    /\ pc[p] = "fold"
    /\ call[p].op = "sweep"
    /\ \A b \in SweptBuckets(p) : totLock[b] = p
    /\ reservations' = Settled(LockedRows(p), "expired")
    /\ reserved' = [b \in Buckets |-> Clamped(reserved[b] - Freed(LockedRows(p), b))]
    /\ UNCHANGED <<usage_events, used, decisions, outbox>>
    /\ Finish(p)
------------------------------------------------------------------------------
Init ==
    /\ reservations = [r \in ResKeys |-> Absent]
    /\ usage_events = [k \in EventKeys |-> NoEvent]
    /\ used = [b \in Buckets |-> 0]
    /\ reserved = [b \in Buckets |-> 0]
    /\ decisions = {}
    /\ outbox = {}
    /\ rowLock = [r \in ResKeys |-> None]
    /\ keyLock = [k \in EventKeys |-> None]
    /\ totLock = [b \in Buckets |-> None]
    /\ pc = [p \in Procs |-> "idle"]
    /\ call = [p \in Procs |-> NoCall]
    /\ clock = 0

Request(p) ==
    \/ \E b \in Buckets, amount \in Amounts, limit \in Limits :
          \/ \E r \in ResKeys : BeginReserve(p, r, b, amount, limit)
          \/ \E k \in EventKeys : BeginCharge(p, k, b, amount, limit)
    \/ \E r \in ResKeys, k \in EventKeys, limit \in Limits : BeginCommit(p, r, k, limit)
    \/ \E r \in ResKeys : BeginRelease(p, r)
    \/ \E k \in EventKeys, b \in Buckets, amount \in AdjustAmounts :
          BeginAdjust(p, k, b, amount)

(* The statements of a request's transaction, after its first. *)
Statement(p) ==
    \/ LockTotals(p)
    \/ \E r \in ResKeys : LockStale(p, r)
    \/ Decide(p)
    \/ ReserveDenied(p) \/ ReserveReplayed(p) \/ Reserve(p)
    \/ ChargeDenied(p) \/ ChargeReplayed(p) \/ Charge(p)
    \/ FoundTerminal(p) \/ LockRow(p)
    \/ InsertReplayed(p) \/ InsertEvent(p)
    \/ FoldCommit(p) \/ FoldExpired(p) \/ FoldAdjust(p)

SweepStart(p) == \E S \in SUBSET ResKeys : SweepRows(p, S)

Sweep(p) ==
    \/ SweepStart(p)
    \/ \E b \in Buckets : SweepTotals(p, b)
    \/ SweepCommit(p)

Next ==
    \/ \E p \in Clients : Request(p) \/ Statement(p)
    \/ \E p \in Sweepers : Sweep(p)
    \/ \E p \in Procs : Abort(p)
    \/ Tick

(* q holds what p waits for. *)
WaitsFor(p, q) ==
    /\ p # q
    /\ \/ pc[p] = "totals" /\ totLock[call[p].bucket] = q
       \/ pc[p] = "expire" /\ \E r \in Stale(p) : rowLock[r] = q
       \/ /\ Decided(p, "charge", "allow")
          /\ keyLock[call[p].key] = q
       \/ pc[p] = "row" /\ rowLock[call[p].res] = q
       \/ pc[p] = "insert" /\ keyLock[call[p].key] = q
       \/ /\ pc[p] = "fold"
          /\ IF call[p].op = "sweep" THEN \E b \in SweptBuckets(p) : totLock[b] = q
                                     ELSE totLock[BucketOf(p)] = q

(* The processes of P wait for one another. *)
Deadlocked(P) ==
    /\ P # {}
    /\ \A p \in P : (\E q \in P : WaitsFor(p, q)) /\ (\E q \in P : WaitsFor(q, p))

(* Postgres' deadlock detector cancels a transaction of the cycle. *)
DeadlockVictim(p) ==
    /\ \E P \in SUBSET Procs : p \in P /\ Deadlocked(P)
    /\ Abort(p)

Spec == Init /\ [][Next]_vars

(* Postgres queues the waiters of a lock, so one that is released again and *)
(* again is eventually granted (SF); it cancels a member of every cycle of  *)
(* waiters; the sweepers never stop polling; disconnects and restarts are   *)
(* not forever.  Clients need not call.                                     *)
Fairness ==
    /\ WF_vars(Tick)
    /\ \A p \in Clients : SF_vars(Statement(p))
    /\ \A p \in Sweepers : /\ WF_vars(SweepStart(p))
                          /\ SF_vars(\E b \in Buckets : SweepTotals(p, b))
                          /\ WF_vars(SweepCommit(p))
    /\ WF_vars(\E p \in Procs : DeadlockVictim(p))
    /\ <>[][\A p \in Procs : Abort(p) => DeadlockVictim(p) \/ Statement(p) \/ Sweep(p)]_vars

FairSpec == Spec /\ Fairness
------------------------------------------------------------------------------
(* The derived column: the totals row holds exactly what the pending        *)
(* reservations hold, so greatest(0, ...) never hides a difference          *)
(* (reserve, commit, release, sweep and the lazy expiry each change both).  *)
ReservedIsHeld == \A b \in Buckets : reserved[b] = Held(b)

(* "Totals can be fully rebuilt from the ledger": used is the signed sum of *)
(* the events of its bucket, whatever commits, charges and adjustments race.*)
UsedIsLedger == \A b \in Buckets : used[b] = Charged(b)

(* Operators' positive adjustments are the only way past the quota. *)
Granted(b) == Cardinality({u \in EventKeys \X Amounts :
                              /\ usage_events[u[1]].kind = "adjustment"
                              /\ usage_events[u[1]].bucket = b
                              /\ u[2] <= usage_events[u[1]].amount})

(* The rows themselves, not the counters: what the ledger charges and the   *)
(* pending reservations hold never exceeds the largest limit a caller was   *)
(* given plus what operators added ("cannot oversubscribe").                *)
NoOversubscription ==
    \A b \in Buckets :
        Unlimited \notin Limits =>
            \E limit \in Limits \cup {0} : Charged(b) + Held(b) <= limit + Granted(b)

ChargesFor(r) == {k \in EventKeys : usage_events[k].reservation = r}

(* A reservation is charged exactly once, for its own amount and bucket, if *)
(* it is committed, and never if it is not: retries, replays under other    *)
(* keys and racing sweeps included ("retries do not double-charge").        *)
CommittedIffCharged ==
    \A r \in ResKeys :
        /\ Cardinality(ChargesFor(r)) = IF reservations[r].status = "committed" THEN 1 ELSE 0
        /\ \A k \in ChargesFor(r) : /\ usage_events[k].amount = reservations[r].amount
                                    /\ usage_events[k].bucket = reservations[r].bucket

(* With one limit and no adjustment upwards, usage at or past a threshold   *)
(* has been reported, even when a refund made usage cross it twice.         *)
ThresholdReported ==
    (/\ Unlimited \notin Limits /\ \A limit \in Limits : Limits = {limit}
     /\ \A a \in AdjustAmounts : a < 0) =>
        \A b \in Buckets, pct \in Percents, limit \in Limits :
            limit > 0 /\ used[b] * 100 >= limit * pct =>
                <<"quota_threshold_reached", b, pct>> \in outbox

(* Every call is answered, by its own last statement or by a rollback. *)
CallsAnswered == \A p \in Procs : pc[p] # "idle" ~> pc[p] = "idle"

(* A hold past its deadline does not keep its quota: the sweep or a lazy    *)
(* expiry reclaims it although the sweep skips every locked row.            *)
OverdueReclaimed ==
    \A r \in ResKeys :
        reservations[r].status = "pending" /\ reservations[r].expires_at <= clock
            ~> reservations[r].status # "pending"

(* "Replays return the original row": a commit whose key already has its    *)
(* event is not reported as failed.  The code does not keep it: TLC refutes *)
(* this as a further property of the safety run.                            *)
ReplayNotDenied ==
    [][\A k \in EventKeys :
          <<"usage_commit_failed", k>> \in outbox' \ outbox => usage_events[k].kind = "none"]_vars

(* The promise: forget locks, totals, decisions, notices and deadlines. *)
Promise == INSTANCE QuotaLedger WITH
    holds <- [r \in ResKeys |-> [status |-> reservations[r].status,
                                 bucket |-> reservations[r].bucket,
                                 amount |-> reservations[r].amount]],
    ledger <- usage_events

ImplementsPromise == Promise!Spec
==============================================================================
