----------------------------- MODULE QuotaLedger -----------------------------
(***************************************************************************)
(* What usage metering promises, without locks, counters, clocks or        *)
(* transactions.  A hold reserves units of a bucket (a customer, a meter   *)
(* and a period); an event of the append-only ledger charges or refunds    *)
(* them.  Admission is decided on the holds and the ledger themselves,     *)
(* atomically with the hold or the charge it admits.  UsageLedger, which   *)
(* keeps derived totals and runs as interleaved database transactions, is  *)
(* shown to implement this module.                                         *)
(***************************************************************************)
EXTENDS Integers, FiniteSets

CONSTANTS
    ResKeys,        \* reservations, named by (customer, idempotency key)
    EventKeys,      \* ledger events, named by (customer, idempotency key)
    Buckets,        \* (customer, meter, period) triples
    MaxAmount,      \* largest amount a request may carry
    Limits,         \* the quota limits entitlements may assemble
    Unlimited,      \* the limit of a meter without a quota row
    None            \* absence of a row, a bucket or a reservation

VARIABLES
    holds,          \* ResKeys -> the hold, or its absence
    ledger          \* EventKeys -> the ledger event, or its absence

vars == <<holds, ledger>>

Amounts == 1..MaxAmount
Terminal == {"committed", "released", "expired"}

NoHold == [status |-> "absent", bucket |-> None, amount |-> 0]
NoEvent == [kind |-> "none", bucket |-> None, amount |-> 0, reservation |-> None]

(* The pending units of the holds in S; a unit of hold r is a pair <<r, i>>. *)
UnitsOf(S) == {u \in S \X Amounts : u[2] <= holds[u[1]].amount}

Pending(b) == {r \in ResKeys : holds[r].status = "pending" /\ holds[r].bucket = b}

Held(b) == Cardinality(UnitsOf(Pending(b)))

(* Refunds are events with a negative amount. *)
Charged(b) ==
    LET units(sign) == {u \in EventKeys \X Amounts :
                            /\ ledger[u[1]].bucket = b
                            /\ u[2] <= sign * ledger[u[1]].amount}
    IN  Cardinality(units(1)) - Cardinality(units(-1))

(* amount fits under limit once the holds in lapsed no longer count. *)
Admits(b, amount, limit, lapsed) ==
    limit # Unlimited =>
        amount <= limit - Charged(b) - Cardinality(UnitsOf(Pending(b) \ lapsed))

Lapse(lapsed) == [r \in ResKeys |-> IF r \in lapsed
                                    THEN [holds[r] EXCEPT !.status = "expired"]
                                    ELSE holds[r]]
------------------------------------------------------------------------------
Init ==
    /\ holds = [r \in ResKeys |-> NoHold]
    /\ ledger = [k \in EventKeys |-> NoEvent]

(* Overdue holds of a bucket lapse, alone ... *)
Expire(lapsed) ==
    /\ \A r \in lapsed : holds[r].status = "pending"
    /\ holds' = Lapse(lapsed)
    /\ UNCHANGED ledger

(* ... or together with the request that found them: a hold is admitted ... *)
Hold(r, b, amount, limit, lapsed) ==
    /\ holds[r] = NoHold
    /\ Admits(b, amount, limit, lapsed)
    /\ holds' = [Lapse(lapsed) EXCEPT
                    ![r] = [status |-> "pending", bucket |-> b, amount |-> amount]]
    /\ UNCHANGED ledger

(* ... or a direct charge is. *)
Charge(k, b, amount, limit, lapsed) ==
    /\ ledger[k] = NoEvent
    /\ Admits(b, amount, limit, lapsed)
    /\ holds' = Lapse(lapsed)
    /\ ledger' = [ledger EXCEPT ![k] = [kind |-> "commit", bucket |-> b,
                                        amount |-> amount, reservation |-> None]]

(* A hold becomes exactly one ledger event of the same bucket and amount. *)
Convert(r, k) ==
    /\ holds[r].status = "pending"
    /\ ledger[k] = NoEvent
    /\ holds' = [holds EXCEPT ![r].status = "committed"]
    /\ ledger' = [ledger EXCEPT ![k] = [kind |-> "commit", bucket |-> holds[r].bucket,
                                        amount |-> holds[r].amount, reservation |-> r]]

Release(r) ==
    /\ holds[r].status = "pending"
    /\ holds' = [holds EXCEPT ![r].status = "released"]
    /\ UNCHANGED ledger

(* An operator's compensating event is not gated by the quota. *)
Adjust(k, b, amount) ==
    /\ ledger[k] = NoEvent
    /\ ledger' = [ledger EXCEPT ![k] = [kind |-> "adjustment", bucket |-> b,
                                        amount |-> amount, reservation |-> None]]
    /\ UNCHANGED holds

Next ==
    \/ \E lapsed \in SUBSET ResKeys : Expire(lapsed)
    \/ \E b \in Buckets, amount \in Amounts, limit \in Limits :
          \E lapsed \in SUBSET Pending(b) :
             \/ \E r \in ResKeys : Hold(r, b, amount, limit, lapsed)
             \/ \E k \in EventKeys : Charge(k, b, amount, limit, lapsed)
    \/ \E r \in ResKeys, k \in EventKeys : Convert(r, k)
    \/ \E r \in ResKeys : Release(r)
    \/ \E k \in EventKeys, b \in Buckets, amount \in (-MaxAmount)..MaxAmount :
          amount # 0 /\ Adjust(k, b, amount)

Spec == Init /\ [][Next]_vars
==============================================================================
