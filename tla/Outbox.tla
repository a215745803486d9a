------------------------------- MODULE Outbox -------------------------------
(***************************************************************************)
(* The transactional outbox: rows of outbox_events written by the          *)
(* transactions of the service, and the publisher workers that read due    *)
(* rows, post them to DataForge and record the outcome.                    *)
(*                                                                         *)
(* A tick reads its batch without locking it and writes each outcome with  *)
(* a statement of its own, so between the two anything may happen: the     *)
(* process stops, the database refuses the write (which ends the tick),    *)
(* DataForge accepts an event but its answer is lost, and a second         *)
(* instance of the service publishes the same rows.                        *)
(*                                                                         *)
(* next_attempt_at is kept as the fact that it has passed.                 *)
(***************************************************************************)
EXTENDS Integers, FiniteSets

CONSTANTS
    Events,         \* delivery keys
    Prohibited,     \* those whose payload the client refuses to send
    Workers,        \* workers::outbox, one per running instance
    Batch,          \* the limit of the query
    MaxAttempts,    \* MAX_ATTEMPTS
    Times,          \* values of created_at
    None

ASSUME OutboxAssumption ==
    /\ Prohibited \subseteq Events
    /\ None \notin Events
    /\ Batch \in Nat \ {0}
    /\ MaxAttempts \in Nat \ {0}
    /\ Times \subseteq Nat

VARIABLES
    status, attempts, due, created, \* outbox_events
    received,   \* delivery keys DataForge has
    failures,   \* failed publishes of an event, counted up to MaxAttempts
    batch,      \* rows a worker has read and not yet dealt with
    seen,       \* attempts as the worker read them
    reply       \* answer to the worker's last publish, until it is recorded

rows == <<status, attempts, due, created>>
dataforge == <<received, failures>>
ticks == <<batch, seen, reply>>
vars == <<rows, dataforge, ticks>>

Final == {"delivered", "dead_letter"}
NoReply == [event |-> None, ok |-> FALSE]

TypeOK ==
    /\ status \in [Events -> Final \cup {"absent", "pending"}]
    /\ attempts \in [Events -> 0..MaxAttempts]
    /\ due \in [Events -> BOOLEAN]
    /\ created \in [Events -> Times \cup {0}]
    /\ received \subseteq Events \ Prohibited
    /\ failures \in [Events -> 0..MaxAttempts]
    /\ batch \in [Workers -> SUBSET Events]
    /\ seen \in [Workers -> [Events -> 0..(MaxAttempts - 1)]]
    /\ reply \in [Workers -> [event: Events \cup {None}, ok: BOOLEAN]]
------------------------------------------------------------------------------
(* write_outbox: on conflict (delivery_key) do nothing. *)
Enqueue(e, time) ==
    /\ status[e] = "absent"
    /\ status' = [status EXCEPT ![e] = "pending"]
    /\ due' = [due EXCEPT ![e] = TRUE]
    /\ created' = [created EXCEPT ![e] = time]
    /\ UNCHANGED <<attempts, dataforge, ticks>>

(* next_attempt_at passes. *)
Elapse(e) ==
    /\ status[e] = "pending"
    /\ ~due[e]
    /\ due' = [due EXCEPT ![e] = TRUE]
    /\ UNCHANGED <<status, attempts, created, dataforge, ticks>>

Due == {e \in Events : status[e] = "pending" /\ due[e]}

(* The oldest due rows; S is what the select returns. *)
Poll(w, S) ==
    /\ batch[w] = {} /\ reply[w] = NoReply
    /\ S \subseteq Due
    /\ S # {}
    /\ Cardinality(S) <= Batch
    /\ Cardinality(S) < Batch => S = Due
    /\ \A e \in S, d \in Due \ S : created[e] <= created[d]
    /\ batch' = [batch EXCEPT ![w] = S]
    /\ seen' = [seen EXCEPT ![w] = [e \in Events |-> IF e \in S THEN attempts[e] ELSE 0]]
    /\ UNCHANGED <<rows, dataforge, reply>>

(* The client posts the oldest row of the batch.  The event may arrive, and *)
(* the worker may learn that it did; a prohibited payload is not sent.      *)
Publish(w, e, arrives, ok) ==
    /\ reply[w] = NoReply
    /\ e \in batch[w]
    /\ \A d \in batch[w] : created[e] <= created[d]
    /\ arrives => e \notin Prohibited
    /\ ok => arrives
    /\ batch' = [batch EXCEPT ![w] = @ \ {e}]
    /\ reply' = [reply EXCEPT ![w] = [event |-> e, ok |-> ok]]
    /\ received' = IF arrives THEN received \cup {e} ELSE received
    /\ failures' = [failures EXCEPT ![e] = IF ok \/ @ = MaxAttempts THEN @ ELSE @ + 1]
    /\ UNCHANGED <<rows, seen>>

Attempt(w) == seen[w][reply[w].event] + 1

Reported(w) == reply[w].event # None                            \* mutant
Accepted(w) == reply[w].event # None /\ reply[w].ok

RecordDelivered(w) ==
    /\ Accepted(w)
    /\ status' = [status EXCEPT ![reply[w].event] = "delivered"]
    /\ reply' = [reply EXCEPT ![w] = NoReply]
    /\ UNCHANGED <<attempts, due, created, dataforge, batch, seen>>

ExhaustedEarly(n) == n + 1 >= MaxAttempts                       \* mutant
Exhausted(n) == n >= MaxAttempts

NotCapped(n) == n + 1                                           \* mutant
NotCounted(n) == n - 1                                           \* mutant
Stored(n) == n

RecordFailure(w) ==
    LET e == reply[w].event
    IN  /\ e # None /\ ~reply[w].ok
        /\ attempts' = [attempts EXCEPT ![e] = Stored(Attempt(w))]
        /\ status' = [status EXCEPT ![e] =
                          IF Exhausted(Attempt(w)) THEN "dead_letter" ELSE "pending"]
        /\ due' = [due EXCEPT ![e] = FALSE]
        /\ reply' = [reply EXCEPT ![w] = NoReply]
        /\ UNCHANGED <<created, dataforge, batch, seen>>

(* A restart, or an error of the database: the rest of the tick is lost. *)
Stop(w) ==
    /\ batch[w] # {} \/ reply[w] # NoReply
    /\ batch' = [batch EXCEPT ![w] = {}]
    /\ reply' = [reply EXCEPT ![w] = NoReply]
    /\ UNCHANGED <<rows, dataforge, seen>>
------------------------------------------------------------------------------
Init ==
    /\ status = [e \in Events |-> "absent"]
    /\ attempts = [e \in Events |-> 0]
    /\ due = [e \in Events |-> FALSE]
    /\ created = [e \in Events |-> 0]
    /\ received = {}
    /\ failures = [e \in Events |-> 0]
    /\ batch = [w \in Workers |-> {}]
    /\ seen = [w \in Workers |-> [e \in Events |-> 0]]
    /\ reply = [w \in Workers |-> NoReply]

(* One statement of a tick. *)
Tick(w) ==
    \/ \E S \in SUBSET Events : Poll(w, S)
    \/ \E e \in Events, arrives, ok \in BOOLEAN : Publish(w, e, arrives, ok)
    \/ RecordDelivered(w)
    \/ RecordFailure(w)

Next ==
    \/ \E e \in Events, time \in Times : Enqueue(e, time)
    \/ \E e \in Events : Elapse(e)
    \/ \E w \in Workers : Tick(w) \/ Stop(w)

Spec == Init /\ [][Next]_vars

(* The workers never stop polling, time passes, and from some point on      *)
(* neither restarts nor the database cut a tick short.  DataForge need not  *)
(* answer at all.                                                           *)
Fairness ==
    /\ \A w \in Workers : WF_vars(Tick(w))
    /\ \A e \in Events : WF_vars(Elapse(e))
    /\ <>[][\A w \in Workers : Stop(w) => Tick(w)]_vars

FairSpec == Spec /\ Fairness
------------------------------------------------------------------------------
(* At least once: what is recorded as delivered did arrive, whichever       *)
(* worker records it and whatever was lost on the way.                      *)
DeliveredArrived == \A e \in Events : status[e] = "delivered" => e \in received

(* An event is given up only after MAX_ATTEMPTS failed publishes, although  *)
(* every worker counts on from the attempts it read earlier.                *)
DeadLetterExhausted ==
    \A e \in Events : status[e] = "dead_letter" => failures[e] = MaxAttempts

(* "Each tick claims a batch": once an outcome is final no other tick       *)
(* changes it.  Nothing claims the rows, so two workers break it: TLC      *)
(* refutes this as a further property of the run.                           *)
FinalIsFinal ==
    [][\A e \in Events : status[e] \in Final => status'[e] = status[e]]_vars

(* "Retry ... eventually dead-letters exhausted events": no event is        *)
(* retried for ever, even when workers overwrite each other's attempts.     *)
Settles == \A e \in Events : <>[](status[e] # "pending")
==============================================================================
