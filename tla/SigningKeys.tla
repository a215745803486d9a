----------------------------- MODULE SigningKeys -----------------------------
(***************************************************************************)
(* The cache of the identity provider's signing keys with which customer   *)
(* tokens are verified.                                                    *)
(*                                                                         *)
(* One mutex guards the cache and is held while the keys are fetched.      *)
(* Whoever has it uses a fresh cache that knows the token's key; otherwise *)
(* it fetches, unless the last attempt was less than REFRESH_INTERVAL ago. *)
(* The time of the attempt is set before the fetch, that of the cache when *)
(* the answer is in.  A request can be dropped at any moment: its client   *)
(* goes away or its time is up, and the mutex is free again.               *)
(*                                                                         *)
(* Times are ages, which stop counting where they no longer matter.  The   *)
(* cache's age is rounded down by less than a tick, so ages are compared   *)
(* as they are.  Signatures and claims are not modelled: a token is        *)
(* accepted if its key is.  Tokens of another algorithm never get here.    *)
(***************************************************************************)
EXTENDS Integers

CONSTANTS
    Tasks,          \* requests that are verified at the same time
    Keys,           \* key ids
    CacheTtl,       \* CACHE_TTL in ticks
    RefreshInterval,\* REFRESH_INTERVAL
    Timeout,        \* how long a fetch may take
    None

ASSUME KeysAssumption ==
    /\ CacheTtl \in Nat /\ RefreshInterval \in Nat /\ Timeout \in Nat
    /\ None \notin Tasks \cup Keys

(* Longer than any key may be trusted after its withdrawal. *)
Forgotten == CacheTtl + Timeout + 1

VARIABLES
    published,      \* the keys the provider publishes
    gone,           \* for how long a key has not been published
    cached,         \* KeyCache.keys
    age,            \* of KeyCache.fetched_at
    tried,          \* age of KeyCache.attempted_at
    holder,         \* the task that has the mutex
    flight,         \* for how long a fetch has been under way
    served, answer, \* whether the provider has answered it, and with which keys
    pc, key         \* where a task is, and the key its token names

cache == <<cached, age, tried>>
provider == <<published, gone>>
fetch == <<holder, flight, served, answer>>
vars == <<provider, cache, fetch, pc, key>>

TypeOK ==
    /\ published \subseteq Keys
    /\ gone \in [Keys -> 0 .. Forgotten]
    /\ cached \subseteq Keys
    /\ age \in 0 .. CacheTtl
    /\ tried \in 0 .. RefreshInterval
    /\ holder \in Tasks \cup {None}
    /\ flight \in 0 .. Timeout
    /\ served \in BOOLEAN /\ answer \subseteq Keys
    /\ pc \in [Tasks -> {"idle", "lock", "fetching", "accepted", "invalid", "unavailable"}]
    /\ key \in [Tasks -> Keys \cup {None}]
------------------------------------------------------------------------------
(* Requests.                                                                *)

GoTo(t, where) == pc' = [pc EXCEPT ![t] = where]

(* A token signed with ES256 arrives. *)
Arrive(t, k) ==
    /\ pc[t] = "idle"
    /\ key' = [key EXCEPT ![t] = k]
    /\ GoTo(t, "lock")
    /\ UNCHANGED <<provider, cache, fetch>>

Leave(t) == GoTo(t, "idle") /\ key' = [key EXCEPT ![t] = None]

(* The extractor goes on with the claims, or the error is returned. *)
Answer(t) ==
    /\ pc[t] \in {"accepted", "invalid", "unavailable"}
    /\ Leave(t)
    /\ UNCHANGED <<provider, cache, fetch>>

EverFresh == TRUE                                               \* mutant
Fresh == age < CacheTtl

Known(k) == Fresh /\ k \in cached

(* A fetch was attempted less than REFRESH_INTERVAL ago. *)
Cooling == tried < RefreshInterval

(* The mutex is free. *)
LockFree == holder = None

Verify(t) ==
    /\ pc[t] = "lock"
    /\ LockFree
    /\ Known(key[t])
    /\ GoTo(t, "accepted")
    /\ UNCHANGED <<provider, cache, fetch, key>>

(* What attempted_at becomes when a fetch is refused; it stays as it is. *)
Extended == 0                                                   \* mutant
Waited == tried

Refuse(t) ==
    /\ pc[t] = "lock"
    /\ LockFree
    /\ ~Known(key[t])
    /\ Cooling
    /\ tried' = Waited
    /\ GoTo(t, IF Fresh THEN "invalid" ELSE "unavailable")
    /\ UNCHANGED <<provider, cached, age, fetch, key>>

BeginFetch(t) ==
    /\ pc[t] = "lock"
    /\ LockFree
    /\ ~Known(key[t])
    /\ ~Cooling
    /\ tried' = 0
    /\ holder' = t
    /\ flight' = 0 /\ served' = FALSE /\ answer' = {}
    /\ GoTo(t, "fetching")
    /\ UNCHANGED <<provider, cached, age, key>>

(* The end of the task's fetch, and of its hold on the mutex. *)
EndFetch == holder' = None /\ flight' = 0 /\ served' = FALSE /\ answer' = {}

(* The answer is complete: the cache is replaced. *)
CompleteFetch(t) ==
    /\ pc[t] = "fetching"
    /\ served
    /\ cached' = answer /\ age' = 0
    /\ EndFetch
    /\ GoTo(t, IF key[t] \in answer THEN "accepted" ELSE "invalid")
    /\ UNCHANGED <<provider, tried, key>>

(* Anything else than a well-formed set of keys in time: the cache stays. *)
FailFetch(t) ==
    /\ pc[t] = "fetching"
    /\ EndFetch
    /\ GoTo(t, "unavailable")
    /\ UNCHANGED <<provider, cache, key>>

(* The request is dropped; the guard of the mutex, if it has one, with it. *)
NoGuard(t) == FALSE                                             \* mutant
HasGuard(t) == holder = t

Drop(t) ==
    /\ pc[t] \in {"lock", "fetching"}
    /\ IF HasGuard(t) THEN EndFetch ELSE UNCHANGED fetch
    /\ Leave(t)
    /\ UNCHANGED <<provider, cache>>
------------------------------------------------------------------------------
(* The provider, and time.                                                  *)

(* The keys as they are when the provider serves the fetch. *)
Serve ==
    /\ holder # None
    /\ ~served
    /\ served' = TRUE /\ answer' = published
    /\ UNCHANGED <<provider, cache, holder, flight, pc, key>>

Publish(k) ==
    /\ k \notin published
    /\ published' = published \cup {k}
    /\ gone' = [gone EXCEPT ![k] = 0]
    /\ UNCHANGED <<cache, fetch, pc, key>>

Withdraw(k) ==
    /\ k \in published
    /\ published' = published \ {k}
    /\ UNCHANGED <<gone, cache, fetch, pc, key>>

Older(n, bound) == IF n < bound THEN n + 1 ELSE n

(* No fetch lasts longer than its timeout. *)
Tick ==
    /\ holder # None => flight < Timeout
    /\ gone' = [k \in Keys |-> IF k \in published THEN 0 ELSE Older(gone[k], Forgotten)]
    /\ age' = Older(age, CacheTtl)
    /\ tried' = Older(tried, RefreshInterval)
    /\ flight' = IF holder # None THEN flight + 1 ELSE flight
    /\ UNCHANGED <<published, cached, holder, served, answer, pc, key>>

(* Nothing has been fetched or attempted. *)
Init ==
    /\ published \in SUBSET Keys
    /\ gone = [k \in Keys |-> IF k \in published THEN 0 ELSE Forgotten]
    /\ cached = {} /\ age = CacheTtl /\ tried = RefreshInterval
    /\ holder = None /\ flight = 0 /\ served = FALSE /\ answer = {}
    /\ pc = [t \in Tasks |-> "idle"]
    /\ key = [t \in Tasks |-> None]

(* validate *)
Validate(t) ==
    \/ Verify(t) \/ Refuse(t)
    \/ BeginFetch(t) \/ CompleteFetch(t) \/ FailFetch(t)

Next ==
    \/ \E t \in Tasks :
          \/ \E k \in Keys : Arrive(t, k)
          \/ Validate(t) \/ Answer(t) \/ Drop(t)
    \/ \E k \in Keys : Publish(k) \/ Withdraw(k)
    \/ Serve
    \/ Tick

Spec == Init /\ [][Next]_vars
------------------------------------------------------------------------------
(* Clients keep calling and time passes; not every request is dropped, and  *)
(* not every fetch fails.                                                   *)
Fairness ==
    /\ WF_vars(Tick)
    /\ SF_vars(Serve)
    /\ WF_vars(\E t \in Tasks : Answer(t) \/ \E k \in Keys : Arrive(t, k))
    /\ SF_vars(\E t \in Tasks : Verify(t) \/ Refuse(t) \/ BeginFetch(t))
    /\ SF_vars(\E t \in Tasks : CompleteFetch(t))

FairSpec == Spec /\ Fairness
------------------------------------------------------------------------------
(* Properties.                                                              *)

(* "Single-flight fetch" (customer.rs): whoever fetches has the mutex, so   *)
(* nobody else fetches, and nobody has the mutex who does not fetch: a      *)
(* request that is dropped or fails in the middle leaves it free.           *)
SingleFlight == \A t \in Tasks : pc[t] = "fetching" <=> holder = t

(* A key that the provider has withdrawn is trusted for CACHE_TTL and the   *)
(* time of one fetch at most: fetched_at is the time at which the answer    *)
(* was complete, and the provider may have withdrawn a key since it served  *)
(* it.                                                                      *)
TrustBounded ==
    [][\A t \in Tasks :
          pc[t] # "accepted" /\ pc'[t] = "accepted" =>
              gone[key[t]] <= CacheTtl + Timeout]_vars

(* "Single-flight fetch with a global cooldown" (customer.rs) does not make *)
(* the cache lag: a key that stays published is in the cache for good in    *)
(* the end, though other tokens name unknown keys all the time, fetches     *)
(* fail and requests are dropped while they have the mutex.                 *)
CacheFollows == \A k \in Keys : <>[](k \in published) => <>[](k \in cached)
==============================================================================
