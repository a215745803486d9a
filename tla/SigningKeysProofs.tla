-------------------------- MODULE SigningKeysProofs --------------------------
(***************************************************************************)
(* Proofs about SigningKeys, for any number of requests and keys and any   *)
(* durations.                                                              *)
(***************************************************************************)
EXTENDS SigningKeys, TLAPS

(* Without a fetch there is nothing served. *)
NothingServed == holder = None => ~served

(* How long a key of the answer, and one of the cache, has been gone. *)
AnswerRecent == served => \A k \in answer : gone[k] <= flight
CacheRecent == age < CacheTtl => \A k \in cached : gone[k] <= age + Timeout
PublishedNow == \A k \in published : gone[k] = 0

IInv == TypeOK /\ SingleFlight /\ NothingServed /\ AnswerRecent /\ CacheRecent /\ PublishedNow

USE KeysAssumption

(* An age grows by at most one and stays within its bound. *)
LEMMA OlderGrows ==
    ASSUME NEW bound \in Nat, NEW n \in 0 .. bound
    PROVE  /\ Older(n, bound) \in 0 .. bound
           /\ Older(n, bound) <= n + 1
           /\ n < bound => Older(n, bound) = n + 1
           /\ n = bound => Older(n, bound) = n
BY DEF Older

LEMMA InitIInv == Init => IInv
<1> SUFFICES ASSUME Init PROVE IInv
    OBVIOUS
<1> USE DEF Init
<1>1. Forgotten \in Nat
    BY DEF Forgotten
<1>2. served \in BOOLEAN
    BY Zenon
<1>3. gone \in [Keys -> 0 .. Forgotten] /\ age \in 0 .. CacheTtl /\ tried \in 0 .. RefreshInterval
    BY <1>1
<1>4. TypeOK
    BY <1>2, <1>3 DEF TypeOK
<1> QED
    BY <1>4 DEF IInv, SingleFlight, NothingServed, AnswerRecent, CacheRecent, PublishedNow

(* A request that neither gets the mutex nor had it changes nothing else.   *)
LEMMA RequestsAside ==
    ASSUME IInv, NEW t \in Tasks, pc[t] # "fetching",
           NEW where \in {"idle", "lock", "accepted", "invalid", "unavailable"},
           GoTo(t, where), key' \in [Tasks -> Keys \cup {None}],
           UNCHANGED <<provider, cache, fetch>>
    PROVE  IInv'
<1> USE DEF provider, cache, fetch
<1>1. pc' = [pc EXCEPT ![t] = where] /\ pc \in [Tasks -> {"idle", "lock", "fetching", "accepted", "invalid", "unavailable"}]
    BY DEF GoTo, IInv, TypeOK
<1>2. TypeOK'
    BY <1>1 DEF IInv, TypeOK
<1>3. SingleFlight'
    BY <1>1 DEF IInv, SingleFlight
<1> QED
    BY <1>2, <1>3 DEF IInv, NothingServed, AnswerRecent, CacheRecent, PublishedNow

(* The end of a fetch: the cache is as it was, or is the answer. *)
LEMMA FetchEnds ==
    ASSUME IInv, NEW t \in Tasks, holder = t, EndFetch,
           NEW where \in {"idle", "accepted", "invalid", "unavailable"},
           GoTo(t, where), key' \in [Tasks -> Keys \cup {None}],
           UNCHANGED <<provider, tried>>,
           \/ UNCHANGED <<cached, age>>
           \/ served /\ cached' = answer /\ age' = 0
    PROVE  IInv'
<1> USE DEF provider, EndFetch
<1>1. pc' = [pc EXCEPT ![t] = where] /\ pc \in [Tasks -> {"idle", "lock", "fetching", "accepted", "invalid", "unavailable"}]
    BY DEF GoTo, IInv, TypeOK
<1>b. served' \in BOOLEAN
    BY Zenon
<1>2. TypeOK'
    BY <1>1, <1>b DEF IInv, TypeOK
<1>3. SingleFlight'
    BY <1>1 DEF IInv, SingleFlight
<1>4. CacheRecent'
    <2>1. CASE UNCHANGED <<cached, age>>
        BY <2>1 DEF IInv, CacheRecent
    <2>2. CASE served /\ cached' = answer /\ age' = 0
        <3> SUFFICES ASSUME NEW k \in answer PROVE gone[k] <= Timeout
            BY <2>2 DEF CacheRecent
        <3>1. gone[k] <= flight /\ flight \in 0 .. Timeout
            BY <2>2 DEF IInv, TypeOK, AnswerRecent
        <3>2. gone[k] \in Nat
            BY DEF IInv, TypeOK, Forgotten
        <3> QED
            BY <3>1, <3>2
    <2> QED
        BY <2>1, <2>2
<1> QED
    BY <1>2, <1>3, <1>4 DEF IInv, NothingServed, AnswerRecent, PublishedNow

LEMMA NextIInv == IInv /\ [Next]_vars => IInv'
<1> SUFFICES ASSUME IInv, [Next]_vars PROVE IInv'
    OBVIOUS
<1> USE DEF IInv
<1>t. TypeOK
    OBVIOUS
<1>1. ASSUME NEW t \in Tasks, NEW k \in Keys, Arrive(t, k) PROVE IInv'
    BY <1>1, <1>t, RequestsAside DEF Arrive, TypeOK
<1>2. ASSUME NEW t \in Tasks, Verify(t) PROVE IInv'
    BY <1>2, <1>t, RequestsAside DEF Verify, TypeOK
<1>3. ASSUME NEW t \in Tasks, Refuse(t) PROVE IInv'
    <2>1. tried' = tried /\ UNCHANGED <<provider, cache, fetch, key>>
        BY <1>3 DEF Refuse, Waited, cache
    <2>2. \E where \in {"invalid", "unavailable"} : GoTo(t, where)
        BY <1>3 DEF Refuse
    <2>3. pc[t] # "fetching" /\ key' \in [Tasks -> Keys \cup {None}]
        BY <1>3, <1>t, <2>1 DEF Refuse, TypeOK
    <2> QED
        BY <2>1, <2>2, <2>3, RequestsAside
<1>4. ASSUME NEW t \in Tasks, Answer(t) PROVE IInv'
    BY <1>4, <1>t, RequestsAside DEF Answer, Leave, TypeOK
<1>5. ASSUME NEW t \in Tasks, BeginFetch(t) PROVE IInv'
    <2> USE <1>5 DEF BeginFetch, LockFree
    <2>1. pc' = [pc EXCEPT ![t] = "fetching"] /\ pc \in [Tasks -> {"idle", "lock", "fetching", "accepted", "invalid", "unavailable"}]
        BY DEF GoTo, TypeOK
    <2>b. served' \in BOOLEAN
        BY Zenon
    <2>2. TypeOK'
        BY <2>1, <2>b DEF TypeOK, provider
    <2>3. SingleFlight'
        BY <2>1 DEF SingleFlight
    <2> QED
        BY <2>2, <2>3 DEF NothingServed, AnswerRecent, CacheRecent, PublishedNow, provider
<1>6. ASSUME NEW t \in Tasks, CompleteFetch(t) PROVE IInv'
    <2>1. \E where \in {"accepted", "invalid"} : GoTo(t, where)
        BY <1>6 DEF CompleteFetch
    <2>2. holder = t /\ key' \in [Tasks -> Keys \cup {None}] /\ UNCHANGED <<provider, tried>>
        BY <1>6 DEF CompleteFetch, SingleFlight, TypeOK
    <2>3. EndFetch /\ served /\ cached' = answer /\ age' = 0
        BY <1>6 DEF CompleteFetch
    <2> QED
        BY <2>1, <2>2, <2>3, FetchEnds
<1>7. ASSUME NEW t \in Tasks, FailFetch(t) PROVE IInv'
    <2>1. holder = t /\ key' \in [Tasks -> Keys \cup {None}]
        BY <1>7 DEF FailFetch, SingleFlight, TypeOK
    <2>2. UNCHANGED <<provider, tried>> /\ UNCHANGED <<cached, age>>
        BY <1>7 DEF FailFetch, cache
    <2> QED
        BY <1>7, <2>1, <2>2, FetchEnds DEF FailFetch
<1>8. ASSUME NEW t \in Tasks, Drop(t) PROVE IInv'
    <2>1. GoTo(t, "idle") /\ key' \in [Tasks -> Keys \cup {None}] /\ UNCHANGED <<provider, cache>>
        BY <1>8 DEF Drop, Leave, TypeOK
    <2>2. CASE holder = t
        BY <1>8, <2>1, <2>2, FetchEnds DEF Drop, HasGuard, cache
    <2>3. CASE holder # t
        BY <1>8, <2>1, <2>3, RequestsAside DEF Drop, HasGuard, SingleFlight
    <2> QED
        BY <2>2, <2>3
<1>9. CASE Serve
    <2> USE <1>9 DEF Serve, provider, cache
    <2>1. TypeOK'
        BY DEF TypeOK
    <2>2. AnswerRecent'
        BY DEF PublishedNow, AnswerRecent, TypeOK
    <2> QED
        BY <2>1, <2>2 DEF SingleFlight, NothingServed, CacheRecent, PublishedNow
<1>10. ASSUME NEW k \in Keys, Publish(k) PROVE IInv'
    <2> USE <1>10 DEF Publish, cache, fetch
    <2>1. gone' \in [Keys -> 0 .. Forgotten] /\ gone'[k] = 0 /\ \A j \in Keys \ {k} : gone'[j] = gone[j]
        BY DEF TypeOK, Forgotten
    <2>2. TypeOK'
        BY <2>1 DEF TypeOK
    <2>3. AnswerRecent' /\ CacheRecent' /\ PublishedNow'
        BY <2>1 DEF AnswerRecent, CacheRecent, PublishedNow, TypeOK
    <2> QED
        BY <2>2, <2>3 DEF SingleFlight, NothingServed
<1>11. ASSUME NEW k \in Keys, Withdraw(k) PROVE IInv'
    BY <1>11 DEF Withdraw, cache, fetch, TypeOK, SingleFlight, NothingServed, AnswerRecent,
                 CacheRecent, PublishedNow
<1>12. CASE Tick
    <2> USE <1>12 DEF Tick
    <2>1. Forgotten \in Nat /\ gone \in [Keys -> 0 .. Forgotten]
        BY DEF Forgotten, TypeOK
    <2>2. ASSUME NEW k \in Keys
          PROVE  /\ gone'[k] \in 0 .. Forgotten /\ gone'[k] <= gone[k] + 1
                 /\ k \in published => gone'[k] = 0
        <3> DEFINE older == Older(gone[k], Forgotten)
        <3>1. gone[k] \in 0 .. Forgotten
            BY <2>1
        <3>2. older \in 0 .. Forgotten /\ older <= gone[k] + 1
            BY <2>1, <3>1, OlderGrows
        <3>3. gone'[k] = IF k \in published THEN 0 ELSE older
            OBVIOUS
        <3> HIDE DEF older
        <3> QED
            BY <2>1, <3>1, <3>2, <3>3
    <2>3. /\ age' \in 0 .. CacheTtl /\ tried' \in 0 .. RefreshInterval
          /\ age < CacheTtl => age' = age + 1
          /\ age = CacheTtl => age' = age
        BY OlderGrows DEF TypeOK
    <2>4. flight' \in 0 .. Timeout /\ (holder # None => flight' = flight + 1)
        BY DEF TypeOK
    <2>5. TypeOK'
        BY <2>1, <2>2, <2>3, <2>4 DEF TypeOK
    <2>6. AnswerRecent'
        <3> SUFFICES ASSUME served, NEW k \in answer PROVE gone'[k] <= flight'
            BY DEF AnswerRecent
        <3>1. holder # None /\ k \in Keys /\ gone[k] <= flight
            BY DEF NothingServed, AnswerRecent, TypeOK
        <3>2. gone[k] \in Nat /\ gone'[k] \in Nat /\ flight \in Nat
            BY <2>1, <2>2, <3>1 DEF TypeOK
        <3> QED
            BY <2>2, <2>4, <3>1, <3>2
    <2>7. CacheRecent'
        <3> SUFFICES ASSUME age' < CacheTtl, NEW k \in cached PROVE gone'[k] <= age' + Timeout
            BY DEF CacheRecent
        <3>1. age < CacheTtl /\ age \in Nat /\ k \in Keys
            BY <2>3 DEF TypeOK
        <3>2. gone[k] <= age + Timeout /\ gone[k] \in Nat /\ gone'[k] \in Nat
            BY <2>1, <2>2, <3>1 DEF CacheRecent
        <3> QED
            BY <2>2, <2>3, <3>1, <3>2
    <2> QED
        BY <2>2, <2>5, <2>6, <2>7 DEF SingleFlight, NothingServed, PublishedNow, TypeOK
<1>13. CASE UNCHANGED vars
    BY <1>13 DEF vars, provider, cache, fetch, TypeOK, SingleFlight, NothingServed, AnswerRecent,
                 CacheRecent, PublishedNow
<1> QED
    BY <1>1, <1>2, <1>3, <1>4, <1>5, <1>6, <1>7, <1>8, <1>9, <1>10, <1>11, <1>12, <1>13
    DEF Next, Validate

LEMMA Invariance == Spec => []IInv
BY InitIInv, NextIInv, PTL DEF Spec

(* Ages and answers keep their types whatever is fetched, failed and        *)
(* dropped.                                                                 *)
THEOREM TypeCorrect == Spec => []TypeOK
<1>1. IInv => TypeOK
    BY DEF IInv
<1> QED
    BY <1>1, Invariance, PTL

(* One fetch at a time ("single-flight"): the request that fetches has the  *)
(* mutex, and whoever has the mutex between steps is fetching.              *)
THEOREM FetchesOneAtATime == Spec => []SingleFlight
<1>1. IInv => SingleFlight
    BY DEF IInv
<1> QED
    BY <1>1, Invariance, PTL

(* A withdrawn key is not trusted for longer than CACHE_TTL and the timeout *)
(* of one fetch, for any number of requests and any cooldown.               *)
THEOREM TrustIsBounded == Spec => TrustBounded
<1>1. ASSUME IInv, [Next]_vars, NEW t \in Tasks, pc[t] # "accepted", pc'[t] = "accepted"
      PROVE  gone[key[t]] <= CacheTtl + Timeout
    <2> USE DEF IInv
    <2>0. pc \in [Tasks -> {"idle", "lock", "fetching", "accepted", "invalid", "unavailable"}]
        BY <1>1 DEF TypeOK
    <2>1. Verify(t) \/ CompleteFetch(t)
        <3>1. ASSUME NEW u \in Tasks, u # t, NEW where, GoTo(u, where) PROVE FALSE
            BY <1>1, <2>0, <3>1 DEF GoTo
        <3>2. pc' # pc
            BY <1>1
        <3>3. ~UNCHANGED vars /\ ~Serve /\ ~Tick /\ \A k \in Keys : ~Publish(k) /\ ~Withdraw(k)
            BY <3>2 DEF vars, Serve, Tick, Publish, Withdraw
        <3>4. PICK u \in Tasks : (\E k \in Keys : Arrive(u, k)) \/ Validate(u) \/ Answer(u) \/ Drop(u)
            BY <1>1, <3>3 DEF Next
        <3>5. u = t
            BY <3>1, <3>4 DEF Arrive, Validate, Answer, Drop, Leave, Verify, Refuse, BeginFetch,
                              CompleteFetch, FailFetch
        <3>6. /\ \A k \in Keys : ~Arrive(t, k)
              /\ ~Answer(t) /\ ~Drop(t) /\ ~Refuse(t) /\ ~BeginFetch(t) /\ ~FailFetch(t)
            BY <1>1, <2>0 DEF Arrive, Answer, Drop, Leave, Refuse, BeginFetch, FailFetch, GoTo
        <3> QED
            BY <3>4, <3>5, <3>6 DEF Validate
    <2>2. CASE Verify(t)
        <3>1. age < CacheTtl /\ key[t] \in cached
            BY <2>2 DEF Verify, Known, Fresh
        <3>2. gone[key[t]] <= age + Timeout /\ gone[key[t]] \in Nat /\ age \in Nat
            BY <1>1, <3>1 DEF CacheRecent, TypeOK, Forgotten
        <3> QED
            BY <3>1, <3>2
    <2>3. CASE CompleteFetch(t)
        <3>1. served /\ key[t] \in answer
            BY <1>1, <2>0, <2>3 DEF CompleteFetch, GoTo
        <3>2. gone[key[t]] <= flight /\ gone[key[t]] \in Nat /\ flight \in 0 .. Timeout
            BY <1>1, <3>1 DEF AnswerRecent, TypeOK, Forgotten
        <3> QED
            BY <3>2
    <2> QED
        BY <2>1, <2>2, <2>3
<1>2. IInv /\ [Next]_vars =>
          [\A t \in Tasks : pc[t] # "accepted" /\ pc'[t] = "accepted" =>
                                gone[key[t]] <= CacheTtl + Timeout]_vars
    BY <1>1
<1> QED
    BY <1>2, Invariance, PTL DEF Spec, TrustBounded
==============================================================================
