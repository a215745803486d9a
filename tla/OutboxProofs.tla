---------------------------- MODULE OutboxProofs ----------------------------
(***************************************************************************)
(* Outbox for any number of events, workers and attempts: what is recorded *)
(* as delivered has arrived, and only exhausted events are given up; with  *)
(* one instance of the service, an outcome once final stays.               *)
(***************************************************************************)
EXTENDS Outbox, TLAPS

(* Every count of attempts, read or stored, is covered by real failures, so *)
(* the workers' overwriting each other only ever loses attempts.            *)
Covered ==
    /\ \A e \in Events : attempts[e] <= failures[e]
    /\ \A e \in Events : status[e] \notin Final => attempts[e] < MaxAttempts
    /\ \A w \in Workers : \A e \in batch[w] : seen[w][e] <= failures[e]
    /\ \A w \in Workers : reply[w].event # None /\ ~reply[w].ok =>
                              Attempt(w) <= failures[reply[w].event]

(* Nobody holds an acceptance for an event that did not arrive. *)
Answers ==
    \A w \in Workers : reply[w].event # None /\ reply[w].ok => reply[w].event \in received

IInv == TypeOK /\ Covered /\ Answers /\ DeliveredArrived /\ DeadLetterExhausted

LEMMA InitInv == Init => IInv
BY OutboxAssumption DEF OutboxAssumption, Init, IInv, TypeOK, Covered, Answers,
   DeliveredArrived, DeadLetterExhausted, NoReply, Final

LEMMA TypeStep == TypeOK /\ Covered /\ [Next]_vars => TypeOK'
<1> SUFFICES ASSUME TypeOK, Covered, [Next]_vars PROVE TypeOK'
  OBVIOUS
<1>1. ASSUME NEW e \in Events, NEW time \in Times, Enqueue(e, time) PROVE TypeOK'
  BY <1>1 DEF Enqueue, TypeOK, dataforge, ticks, Final
<1>2. ASSUME NEW e \in Events, Elapse(e) PROVE TypeOK'
  BY <1>2 DEF Elapse, TypeOK, dataforge, ticks
<1>3. ASSUME NEW w \in Workers, NEW S \in SUBSET Events, Poll(w, S) PROVE TypeOK'
  <2>1. \A e \in S : attempts[e] \in 0..(MaxAttempts - 1)
    BY OutboxAssumption, <1>3 DEF OutboxAssumption, Poll, Due, TypeOK, Covered, Final
  <2>2. [e \in Events |-> IF e \in S THEN attempts[e] ELSE 0] \in [Events -> 0..(MaxAttempts - 1)]
    BY OutboxAssumption, <2>1 DEF OutboxAssumption
  <2>3. QED
    BY <1>3, <2>2 DEF Poll, TypeOK, rows, dataforge
<1>4. ASSUME NEW w \in Workers, NEW e \in Events, NEW arrives \in BOOLEAN, NEW ok \in BOOLEAN,
             Publish(w, e, arrives, ok)
      PROVE  TypeOK'
  <2>1. received' \subseteq Events \ Prohibited
    BY <1>4 DEF Publish, TypeOK
  <2>2. failures' \in [Events -> 0..MaxAttempts]
    <3> DEFINE n == IF ok \/ failures[e] = MaxAttempts THEN failures[e] ELSE failures[e] + 1
    <3>1. n \in 0..MaxAttempts
      <4>1. \/ n = failures[e]
            \/ n = failures[e] + 1 /\ failures[e] # MaxAttempts
        OBVIOUS
      <4>2. failures[e] \in 0..MaxAttempts /\ MaxAttempts \in Nat
        BY OutboxAssumption DEF OutboxAssumption, TypeOK
      <4> HIDE DEF n
      <4>3. QED
        BY <4>1, <4>2
    <3>2. failures' = [failures EXCEPT ![e] = n]
      BY <1>4 DEF Publish
    <3> HIDE DEF n
    <3>3. QED
      BY <3>1, <3>2 DEF TypeOK
  <2>3. reply' \in [Workers -> [event: Events \cup {None}, ok: BOOLEAN]]
    BY <1>4 DEF Publish, TypeOK
  <2>4. batch' \in [Workers -> SUBSET Events]
    BY <1>4 DEF Publish, TypeOK
  <2>5. QED
    BY <1>4, <2>1, <2>2, <2>3, <2>4 DEF Publish, TypeOK, rows
<1>5. ASSUME NEW w \in Workers, RecordDelivered(w) PROVE TypeOK'
  BY <1>5 DEF RecordDelivered, Accepted, NoReply, Final, TypeOK, dataforge
<1>6. ASSUME NEW w \in Workers, RecordFailure(w) PROVE TypeOK'
  <2>1. reply[w].event \in Events
    BY <1>6 DEF RecordFailure, TypeOK
  <2>2. Attempt(w) \in 0..MaxAttempts
    BY OutboxAssumption, <2>1 DEF OutboxAssumption, Attempt, TypeOK
  <2>3. QED
    BY <1>6, <2>1, <2>2 DEF RecordFailure, Stored, NoReply, Final, TypeOK, dataforge
<1>7. ASSUME NEW w \in Workers, Stop(w) PROVE TypeOK'
  BY <1>7 DEF Stop, NoReply, TypeOK, rows, dataforge
<1>8. CASE UNCHANGED vars
  BY <1>8 DEF vars, rows, dataforge, ticks, TypeOK
<1>9. QED
  BY <1>1, <1>2, <1>3, <1>4, <1>5, <1>6, <1>7, <1>8 DEF Next, Tick

LEMMA OneMore ==
    ASSUME NEW m \in Nat, NEW f \in 0..m, NEW s \in 0..(m - 1), s <= f, f # m
    PROVE  f + 1 \in 0..m /\ f + 1 >= f /\ f + 1 >= s + 1
OBVIOUS

LEMMA CoveredStep ==
    IInv /\ [Next]_vars => Covered' /\ DeadLetterExhausted'
<1> SUFFICES ASSUME IInv, [Next]_vars PROVE Covered' /\ DeadLetterExhausted'
  OBVIOUS
<1> USE OutboxAssumption DEF OutboxAssumption, IInv, TypeOK, Covered, DeadLetterExhausted, Attempt
<1>1. ASSUME NEW e \in Events, NEW time \in Times, Enqueue(e, time)
      PROVE  Covered' /\ DeadLetterExhausted'
  <2>1. attempts[e] < MaxAttempts
    BY <1>1 DEF Enqueue, Final
  <2>2. /\ \A d \in Events : status'[d] \notin Final => attempts'[d] < MaxAttempts
        /\ \A d \in Events : status'[d] = "dead_letter" => status[d] = "dead_letter"
    BY <1>1, <2>1 DEF Enqueue, Final
  <2>3. UNCHANGED <<attempts, failures, batch, seen, reply>>
    BY <1>1 DEF Enqueue, dataforge, ticks
  <2>4. QED
    BY <2>2, <2>3
<1>2. ASSUME NEW e \in Events, Elapse(e) PROVE Covered' /\ DeadLetterExhausted'
  BY <1>2 DEF Elapse, dataforge, ticks
<1>3. ASSUME NEW w \in Workers, NEW S \in SUBSET Events, Poll(w, S)
      PROVE  Covered' /\ DeadLetterExhausted'
  BY <1>3 DEF Poll, rows, dataforge, NoReply
<1>4. ASSUME NEW w \in Workers, NEW e \in Events, NEW arrives \in BOOLEAN, NEW ok \in BOOLEAN,
             Publish(w, e, arrives, ok)
      PROVE  Covered' /\ DeadLetterExhausted'
  <2>1. /\ \A d \in Events : failures'[d] \in 0..MaxAttempts /\ failures'[d] >= failures[d]
        /\ ~ok => failures'[e] >= seen[w][e] + 1
    <3> DEFINE n == IF ok \/ failures[e] = MaxAttempts THEN failures[e] ELSE failures[e] + 1
    <3>1. /\ MaxAttempts \in Nat /\ failures[e] \in 0..MaxAttempts
          /\ seen[w][e] \in 0..(MaxAttempts - 1) /\ seen[w][e] <= failures[e]
      BY <1>4 DEF Publish
    <3>2. failures' = [failures EXCEPT ![e] = n]
      BY <1>4 DEF Publish
    <3>3. /\ n \in 0..MaxAttempts /\ n >= failures[e]
          /\ n >= seen[w][e] + 1 \/ ok
      <4>1. \/ n = failures[e] /\ ok
            \/ n = failures[e] /\ failures[e] = MaxAttempts
            \/ n = failures[e] + 1 /\ failures[e] # MaxAttempts
        OBVIOUS
      <4> HIDE DEF n
      <4>2. CASE n = failures[e] /\ ok
        BY <3>1, <4>2
      <4>3. CASE n = failures[e] /\ failures[e] = MaxAttempts
        BY <3>1, <4>3
      <4>4. CASE n = failures[e] + 1 /\ failures[e] # MaxAttempts
        BY <3>1, <4>4, OneMore
      <4>5. QED
        BY <4>1, <4>2, <4>3, <4>4
    <3> HIDE DEF n
    <3>4. QED
      BY <3>2, <3>3
  <2>2. ASSUME NEW v \in Workers, reply'[v].event # None, ~reply'[v].ok
        PROVE  seen'[v][reply'[v].event] + 1 <= failures'[reply'[v].event]
    <3>1. CASE v = w
      BY <1>4, <2>1, <2>2, <3>1 DEF Publish
    <3>2. CASE v # w
      <4>1. reply'[v] = reply[v] /\ seen'[v] = seen[v]
        BY <1>4, <3>2 DEF Publish
      <4>2. reply[v].event \in Events
        BY <2>2, <4>1
      <4>3. seen[v][reply[v].event] \in Int /\ failures[reply[v].event] \in Int
        BY <4>2
      <4>4. QED
        BY <2>1, <2>2, <4>1, <4>2, <4>3
    <3>3. QED
      BY <3>1, <3>2
  <2>3. QED
    BY <1>4, <2>1, <2>2 DEF Publish, rows
<1>5. ASSUME NEW w \in Workers, RecordDelivered(w) PROVE Covered' /\ DeadLetterExhausted'
  BY <1>5 DEF RecordDelivered, Accepted, NoReply, dataforge, Final
<1>6. ASSUME NEW w \in Workers, RecordFailure(w) PROVE Covered' /\ DeadLetterExhausted'
  <2> DEFINE e == reply[w].event
             n == seen[w][e] + 1
  <2>1. e \in Events /\ n \in 1..MaxAttempts /\ n <= failures[e]
    BY <1>6 DEF RecordFailure
  <2>2. /\ attempts' = [attempts EXCEPT ![e] = n]
        /\ status' = [status EXCEPT ![e] = IF n >= MaxAttempts THEN "dead_letter" ELSE "pending"]
        /\ reply'[w].event = None /\ \A v \in Workers : v # w => reply'[v] = reply[v]
        /\ UNCHANGED <<failures, batch, seen>>
    BY <1>6 DEF RecordFailure, Stored, Exhausted, NoReply, dataforge
  <2> HIDE DEF e, n
  <2>3. \A d \in Events : /\ attempts'[d] <= failures'[d]
                          /\ status'[d] \notin Final => attempts'[d] < MaxAttempts
                          /\ status'[d] = "dead_letter" => failures'[d] = MaxAttempts
    <3> TAKE d \in Events
    <3>1. /\ attempts[d] \in Int /\ failures[d] \in 0..MaxAttempts
          /\ n \in Int /\ MaxAttempts \in Nat /\ attempts[d] <= failures[d]
          /\ status[d] \notin Final => attempts[d] < MaxAttempts
          /\ status[d] = "dead_letter" => failures[d] = MaxAttempts
          /\ DOMAIN attempts = Events /\ DOMAIN status = Events
      BY <2>1
    <3> HIDE DEF IInv, TypeOK, Covered, DeadLetterExhausted, OutboxAssumption
    <3>2. CASE d = e
      <4>1. attempts'[d] = n /\ failures'[d] = failures[d]
        BY <2>1, <2>2, <3>1, <3>2
      <4>2. status'[d] = IF n >= MaxAttempts THEN "dead_letter" ELSE "pending"
        BY <2>1, <2>2, <3>1, <3>2
      <4>3. CASE n = MaxAttempts
        <5>1. failures'[d] = MaxAttempts /\ attempts'[d] = MaxAttempts
          BY <2>1, <3>1, <3>2, <4>1, <4>3
        <5>2. status'[d] = "dead_letter"
          BY <3>1, <4>2, <4>3
        <5>3. QED
          BY <3>1, <5>1, <5>2 DEF Final
      <4>4. CASE n < MaxAttempts
        BY <2>1, <3>1, <3>2, <4>1, <4>2, <4>4 DEF Final
      <4>5. QED
        BY <2>1, <3>1, <4>3, <4>4
    <3>3. CASE d # e
      BY <2>2, <3>1, <3>3
    <3>4. QED
      BY <3>2, <3>3
  <2>4. \A v \in Workers : reply'[v].event # None =>
            v # w /\ reply'[v] = reply[v] /\ reply[v].event \in Events
    BY <2>2
  <2>5. \A v \in Workers : /\ \A d \in batch'[v] : seen'[v][d] <= failures'[d]
                           /\ reply'[v].event # None /\ ~reply'[v].ok =>
                                seen'[v][reply'[v].event] + 1 <= failures'[reply'[v].event]
    BY <2>2, <2>4
  <2>6. (\A d \in Events : attempts[d] <= failures[d])'
    BY <2>3
  <2>7. (\A d \in Events : status[d] \notin Final => attempts[d] < MaxAttempts)'
    BY <2>3 DEF Final
  <2>8. DeadLetterExhausted'
    BY <2>3
  <2>9. Covered'
    BY <2>5, <2>6, <2>7
  <2>10. QED
    BY <2>8, <2>9
<1>7. ASSUME NEW w \in Workers, Stop(w) PROVE Covered' /\ DeadLetterExhausted'
  BY <1>7 DEF Stop, NoReply, rows, dataforge
<1>8. CASE UNCHANGED vars
  BY <1>8 DEF vars, rows, dataforge, ticks
<1>9. QED
  BY <1>1, <1>2, <1>3, <1>4, <1>5, <1>6, <1>7, <1>8 DEF Next, Tick

LEMMA ArrivedStep ==
    IInv /\ [Next]_vars => Answers' /\ DeliveredArrived'
<1> SUFFICES ASSUME IInv, [Next]_vars PROVE Answers' /\ DeliveredArrived'
  OBVIOUS
<1> USE DEF IInv, TypeOK, Answers, DeliveredArrived
<1>1. ASSUME NEW e \in Events, NEW time \in Times, Enqueue(e, time)
      PROVE  Answers' /\ DeliveredArrived'
  BY <1>1 DEF Enqueue, dataforge, ticks
<1>2. ASSUME NEW e \in Events, Elapse(e) PROVE Answers' /\ DeliveredArrived'
  BY <1>2 DEF Elapse, dataforge, ticks
<1>3. ASSUME NEW w \in Workers, Tick(w) PROVE Answers' /\ DeliveredArrived'
  BY <1>3 DEF Tick, Poll, Publish, RecordDelivered, RecordFailure, Accepted, NoReply,
     rows, dataforge
<1>4. ASSUME NEW w \in Workers, Stop(w) PROVE Answers' /\ DeliveredArrived'
  BY <1>4 DEF Stop, NoReply, rows, dataforge
<1>5. CASE UNCHANGED vars
  BY <1>5 DEF vars, rows, dataforge, ticks
<1>6. QED
  BY <1>1, <1>2, <1>3, <1>4, <1>5 DEF Next

LEMMA InvStep == IInv /\ [Next]_vars => IInv'
BY TypeStep, CoveredStep, ArrivedStep DEF IInv

(* Every state of the outbox and of its workers is well-typed: attempts     *)
(* never exceed MAX_ATTEMPTS.                                               *)
THEOREM TypeCorrect == Spec => []TypeOK
<1>1. IInv => TypeOK
  BY DEF IInv
<1>2. QED
  BY InitInv, InvStep, <1>1, PTL DEF Spec

(* The outbox never reports a delivery that did not happen                  *)
(* (workers::outbox::tick), for any number of instances.                    *)
THEOREM OutboxCorrect == Spec => []DeliveredArrived
<1>1. IInv => DeliveredArrived
  BY DEF IInv
<1>2. QED
  BY InitInv, InvStep, <1>1, PTL DEF Spec

(* The outbox never gives an event up early, for any number of instances    *)
(* that overwrite each other's attempts.                                    *)
THEOREM DeadLettersExhausted == Spec => []DeadLetterExhausted
<1>1. IInv => DeadLetterExhausted
  BY DEF IInv
<1>2. QED
  BY InitInv, InvStep, <1>1, PTL DEF Spec
------------------------------------------------------------------------------
(* One instance of the service.                                             *)

OneInstance == \A v, w \in Workers : v = w

(* What the worker has read, and what it has an answer to, is still pending.*)
StillPending ==
    \A w \in Workers :
       /\ \A e \in batch[w] : status[e] = "pending"
       /\ reply[w].event # None => /\ status[reply[w].event] = "pending"
                                  /\ reply[w].event \notin batch[w]

LEMMA PendingStep == OneInstance /\ TypeOK /\ StillPending /\ [Next]_vars => StillPending'
<1> SUFFICES ASSUME OneInstance, TypeOK, StillPending, [Next]_vars PROVE StillPending'
  OBVIOUS
<1>1. \A v, w \in Workers : v = w
  BY DEF OneInstance
<1>2. ASSUME NEW e \in Events, NEW time \in Times, Enqueue(e, time) PROVE StillPending'
  BY <1>2 DEF Enqueue, TypeOK, StillPending, ticks
<1>3. ASSUME NEW e \in Events, Elapse(e) PROVE StillPending'
  BY <1>3 DEF Elapse, StillPending, ticks
<1>4. ASSUME NEW w \in Workers, NEW S \in SUBSET Events, Poll(w, S) PROVE StillPending'
  <2>1. /\ batch'[w] = S /\ reply'[w].event = None /\ status' = status
        /\ \A e \in S : status[e] = "pending"
    BY <1>4 DEF Poll, Due, NoReply, TypeOK, rows
  <2>2. QED
    BY <1>1, <2>1 DEF StillPending
<1>5. ASSUME NEW w \in Workers, NEW e \in Events, NEW arrives \in BOOLEAN, NEW ok \in BOOLEAN,
             Publish(w, e, arrives, ok)
      PROVE  StillPending'
  <2>1. /\ batch'[w] = batch[w] \ {e} /\ reply'[w].event = e /\ e \in batch[w]
        /\ status' = status
    BY <1>5 DEF Publish, TypeOK, rows
  <2>2. QED
    BY <1>1, <2>1 DEF StillPending
<1>6. ASSUME NEW w \in Workers, RecordDelivered(w) \/ RecordFailure(w) PROVE StillPending'
  <2>1. PICK e \in Events : e = reply[w].event
    BY <1>6 DEF RecordDelivered, RecordFailure, Accepted, TypeOK
  <2>2. /\ reply'[w].event = None /\ batch' = batch
        /\ \A d \in Events : d # e => status'[d] = status[d]
    BY <1>6, <2>1 DEF RecordDelivered, RecordFailure, NoReply, TypeOK
  <2>3. e \notin batch[w] /\ batch[w] \subseteq Events
    BY <1>6, <2>1 DEF StillPending, TypeOK, RecordDelivered, RecordFailure, Accepted
  <2>4. QED
    BY <1>1, <2>2, <2>3 DEF StillPending
<1>7. ASSUME NEW w \in Workers, Stop(w) PROVE StillPending'
  <2>1. batch'[w] = {} /\ reply'[w].event = None
    BY <1>7 DEF Stop, NoReply, TypeOK
  <2>2. QED
    BY <1>1, <2>1 DEF StillPending
<1>8. CASE UNCHANGED vars
  BY <1>8 DEF vars, rows, ticks, StillPending
<1>9. QED
  BY <1>2, <1>3, <1>4, <1>5, <1>6, <1>7, <1>8 DEF Next, Tick

LEMMA FinalStep ==
    ASSUME OneInstance, TypeOK, StillPending, [Next]_vars, NEW e \in Events, status[e] \in Final
    PROVE  status'[e] = status[e]
<1>1. ASSUME NEW w \in Workers, RecordDelivered(w) \/ RecordFailure(w) PROVE status'[e] = status[e]
  <2>1. reply[w].event # e
    BY <1>1 DEF StillPending, RecordDelivered, RecordFailure, Accepted, Final
  <2>2. QED
    BY <1>1, <2>1 DEF RecordDelivered, RecordFailure, TypeOK
<1>2. ASSUME NEW d \in Events, NEW time \in Times, Enqueue(d, time) PROVE status'[e] = status[e]
  BY <1>2 DEF Enqueue, TypeOK, Final
<1>3. QED
  BY <1>1, <1>2 DEF Next, Tick, Elapse, Poll, Publish, Stop, vars, rows

(* "Each tick claims a batch": with one instance of the service, whatever   *)
(* is lost and however often it restarts, an outcome once final stays.      *)
THEOREM FinalWithOneInstance == ASSUME OneInstance PROVE Spec => FinalIsFinal
<1>1. Init => StillPending
  BY DEF Init, StillPending, NoReply
<1>2. TypeOK /\ StillPending /\ [Next]_vars => StillPending'
  BY PendingStep
<1>3. TypeOK /\ StillPending /\ [Next]_vars =>
         [\A e \in Events : status[e] \in Final => status'[e] = status[e]]_vars
  BY FinalStep
<1>4. QED
  BY TypeCorrect, <1>1, <1>2, <1>3, PTL DEF Spec, FinalIsFinal
=============================================================================
