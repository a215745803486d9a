------------------------------- MODULE Account -------------------------------
(***************************************************************************)
(* One customer's account: its provisioning on the first call, suspension  *)
(* and restoration, the second factor it requires, and the deletion        *)
(* requests that end in its erasure.                                       *)
(*                                                                         *)
(* A customer's request is admitted on the profile as it was when the      *)
(* extractor read it and may run much later.  Operators lock the row of a  *)
(* deletion request by its id; a customer's request looks for the newest   *)
(* open one and locks that, waiting for a row and looking at it again, and *)
(* inserts one if there is none.  Everything that refers to the profile,   *)
(* audit rows included, waits while an erasure has the profile.            *)
(*                                                                         *)
(* Audit rows and outbox events are written in the transaction of the      *)
(* change they report.  What the erasure does to licenses, devices and     *)
(* installations is in Licensing.  No code closes an account.              *)
(***************************************************************************)
EXTENDS Integers, Sequences

CONSTANTS
    Sessions,       \* requests of the customer, each with a transaction
    Operators,      \* operators with the role admin, each with a transaction
    MaxRequests,    \* bound on deletion requests
    MaxHistory,     \* bound on status changes
    None

Procs == Sessions \cup Operators
Requests == 1 .. MaxRequests

ASSUME AccountAssumption ==
    /\ Sessions \cap Operators = {}
    /\ MaxRequests \in Nat /\ MaxHistory \in Nat
    /\ None \notin Procs

VARIABLES
    profile,        \* customer_profiles
    email,          \* direct personal data: a row of customer_emails
    history,        \* customer_status_history
    request,        \* account_deletion_requests in the order of requested_at
    subscribed,     \* a subscription is not canceled
    profLock,       \* row lock on the profile
    reqLock,        \* row locks on the deletion requests
    pc, job         \* the statement a process is at, and what it has read

person == <<profile, email, history>>
locks == <<profLock, reqLock>>
vars == <<person, request, subscribed, locks, pc, job>>

Statuses == {"absent", "active", "suspended", "anonymized"}
Stages == {"absent", "requested", "verified", "cooling_off", "processing",
           "completed", "rejected", "canceled"}

NoJob == [request |-> 0, open |-> {}, known |-> {}, prior |-> "absent"]

TypeOK ==
    /\ profile \in [status: Statuses, grace: BOOLEAN,
                    mfa: {"off", "default", "demanded"}]
    /\ email \in BOOLEAN
    /\ history \in Seq(Statuses \X Statuses)
    /\ request \in [Requests -> [status: Stages, window: {"unset", "running", "elapsed"}]]
    /\ subscribed \in BOOLEAN
    /\ profLock \in Operators \cup {None}
    /\ reqLock \in [Requests -> Procs \cup {None}]
    /\ pc \in [Procs -> {"idle", "request", "cancel", "mfa", "find", "find_cancel",
                         "commit_cancel", "decide", "erase"}]
    /\ job \in [Procs -> [request: Requests \cup {0}, open: SUBSET Requests,
                          known: SUBSET Requests, prior: Statuses]]
------------------------------------------------------------------------------
(* Transactions.                                                            *)

GoTo(p, where) == pc' = [pc EXCEPT ![p] = where]

Freed(lock, p) == IF lock = p THEN None ELSE lock

Finish(p) ==
    /\ profLock' = Freed(profLock, p)
    /\ reqLock' = [q \in Requests |-> Freed(reqLock[q], p)]
    /\ GoTo(p, "idle")
    /\ job' = [job EXCEPT ![p] = NoJob]

(* An error, a refusal after the lock was taken, or a lost connection. *)
Abort(p) ==
    /\ pc[p] # "idle"
    /\ Finish(p)
    /\ UNCHANGED <<person, request, subscribed>>

(* The profile can be updated, or referred to by a row that is inserted. *)
AnyProfile == TRUE                                              \* mutant
ProfileFree == profLock = None

AnyRequest(q) == TRUE                                           \* mutant
RequestFree(q) == reqLock[q] = None
------------------------------------------------------------------------------
(* Provisioning, and what operators decide about the account.               *)

(* A new profile requires the second factor, after a time of grace. *)
Create ==
    /\ profile.status = "absent"
    /\ profile' = [status |-> "active", mfa |-> "default", grace |-> TRUE]
    /\ email' \in BOOLEAN
    /\ history' = Append(history, <<"absent", "active">>)
    /\ UNCHANGED <<request, subscribed, locks, pc, job>>

(* A known profile is only read, but the token's e-mail is inserted. *)
AddEmail ==
    /\ profile.status # "absent"
    /\ ProfileFree
    /\ email' = TRUE
    /\ UNCHANGED <<profile, history, request, subscribed, locks, pc, job>>

(* account_provision: any token will do. *)
Provision == Create \/ AddEmail

(* set_customer_status; the status it has already is only read. *)
SetCustomerStatus(to) ==
    /\ profile.status \notin {"absent", to}
    /\ ProfileFree
    /\ Len(history) < MaxHistory
    /\ profile' = [profile EXCEPT !.status = to]
    /\ history' = Append(history, <<profile.status, to>>)
    /\ UNCHANGED <<email, request, subscribed, locks, pc, job>>

(* set_customer_mfa_requirement; a requirement that stands is only read. *)
SetMfaRequirement(required) ==
    /\ profile.status # "absent"
    /\ ProfileFree
    /\ required # (profile.mfa # "off")
    /\ profile' = [profile EXCEPT !.mfa = IF required THEN "demanded" ELSE "off"]
    /\ UNCHANGED <<email, history, request, subscribed, locks, pc, job>>
------------------------------------------------------------------------------
(* The customer's requests.                                                 *)

(* mfa_grace_active and is_aal2 *)
FactorShown(aal2) == profile.mfa = "off" \/ profile.grace \/ aal2

(* require_active *)
Admitted(aal2) == profile.status = "active" /\ FactorShown(aal2)

(* The extractor and the checks of deletion_request_create,                 *)
(* deletion_request_cancel and account_mfa_status; the last needs aal2.     *)
Admit(s, what, aal2) ==
    /\ pc[s] = "idle"
    /\ Admitted(aal2)
    /\ what = "mfa" => aal2
    /\ GoTo(s, what)
    /\ UNCHANGED <<person, request, subscribed, locks, job>>

(* set_mfa_required: one UPDATE, whatever the flag was. *)
SetMfaRequired(s, enabled) ==
    /\ pc[s] = "mfa"
    /\ ProfileFree
    /\ profile' = [profile EXCEPT !.mfa = IF enabled THEN "demanded" ELSE "off"]
    /\ Finish(s)
    /\ UNCHANGED <<email, history, request, subscribed>>

Open(q) == request[q].status \in {"requested", "verified", "cooling_off", "processing"}
Known == {q \in Requests : request[q].status # "absent"}
Newest(S) == {q \in S : \A r \in S : r <= q}

(* The open requests that the SELECT ... FOR UPDATE finds when it begins. *)
FindOpen(s) ==
    /\ pc[s] \in {"request", "cancel"}
    /\ job' = [job EXCEPT ![s] = [NoJob EXCEPT
                  !.open  = {q \in Requests : Open(q)},
                  !.known = IF pc[s] = "request" THEN Newest(Known) ELSE {}]]
    /\ GoTo(s, IF pc[s] = "request" THEN "find" ELSE "find_cancel")
    /\ UNCHANGED <<person, request, subscribed, locks>>

(* It waits for the newest; one that is no longer open is passed over. *)
PassOver(s) ==
    /\ pc[s] \in {"find", "find_cancel"}
    /\ \E q \in Newest(job[s].open) :
           /\ RequestFree(q)
           /\ ~Open(q)
           /\ job' = [job EXCEPT ![s].open = @ \ {q}]
    /\ UNCHANGED <<person, request, subscribed, locks, pc>>

(* request_deletion: an open request is returned as it is. *)
ReturnOpen(s) ==
    /\ pc[s] = "find"
    /\ \E q \in Newest(job[s].open) : RequestFree(q) /\ Open(q)
    /\ Finish(s)
    /\ UNCHANGED <<person, request, subscribed>>

(* request_deletion: without one, a request is inserted.  It is younger     *)
(* than the newest known when the transaction began.                        *)
InsertRequest(s, q) ==
    /\ pc[s] = "find"
    /\ job[s].open = {}
    /\ ProfileFree
    /\ request[q].status = "absent"
    /\ \A r \in job[s].known : r < q
    /\ request' = [request EXCEPT ![q].status = "requested"]
    /\ Finish(s)
    /\ UNCHANGED <<person, subscribed>>

(* can_cancel and can_reject *)
Early(status) == status \in {"requested", "verified", "cooling_off"}

(* cancel_request: the row is locked and checked, *)
LockCanceled(s) ==
    /\ pc[s] = "find_cancel"
    /\ \E q \in Newest(job[s].open) :
           /\ RequestFree(q)
           /\ Early(request[q].status)
           /\ reqLock' = [reqLock EXCEPT ![q] = s]
           /\ job' = [job EXCEPT ![s] = [NoJob EXCEPT !.request = q]]
    /\ GoTo(s, "commit_cancel")
    /\ UNCHANGED <<person, request, subscribed, profLock>>

(* and canceled.  The audit row waits for the profile. *)
CommitCancel(s) ==
    /\ pc[s] = "commit_cancel"
    /\ ProfileFree
    /\ request' = [request EXCEPT ![job[s].request].status = "canceled"]
    /\ Finish(s)
    /\ UNCHANGED <<person, subscribed>>
------------------------------------------------------------------------------
(* Operators on deletion requests.                                          *)

(* lock_request *)
LockRequest(o, q) ==
    /\ pc[o] = "idle"
    /\ request[q].status # "absent"
    /\ RequestFree(q)
    /\ reqLock' = [reqLock EXCEPT ![q] = o]
    /\ job' = [job EXCEPT ![o] = [NoJob EXCEPT !.request = q]]
    /\ GoTo(o, "decide")
    /\ UNCHANGED <<person, request, subscribed, profLock>>

(* next_state; a status that the table does not know is a mistake. *)
Misnamed(status) == IF status = "verified" THEN "cooling" ELSE "verified" \* mutant
NextState(status) ==
    CASE status = "requested"   -> "verified"
      [] status = "verified"    -> "cooling_off"
      [] status = "cooling_off" -> "processing"
      [] OTHER                  -> "none"

(* The cooling-off time, if the step needs it, has passed. *)
Impatient(q) == TRUE                                            \* mutant
Cooled(q) == request[q].status = "cooling_off" => request[q].window = "elapsed"

AdvanceRequest(o) ==
    LET q == job[o].request
        next == NextState(request[q].status)
    IN  /\ pc[o] = "decide"
        /\ next # "none"
        /\ Cooled(q)
        /\ ProfileFree
        /\ request' = [request EXCEPT ![q].status = next,
                                      ![q].window = IF next = "cooling_off" THEN "running" ELSE @]
        /\ Finish(o)
        /\ UNCHANGED <<person, subscribed>>

RejectRequest(o) ==
    /\ pc[o] = "decide"
    /\ Early(request[job[o].request].status)
    /\ ProfileFree
    /\ request' = [request EXCEPT ![job[o].request].status = "rejected"]
    /\ Finish(o)
    /\ UNCHANGED <<person, subscribed>>

(* execute_deletion until it writes: the profile is locked, the             *)
(* subscriptions are only counted.                                          *)
BeginErasure(o) ==
    /\ pc[o] = "decide"
    /\ request[job[o].request].status = "processing"
    /\ ProfileFree
    /\ ~subscribed
    /\ Len(history) < MaxHistory
    /\ profLock' = o
    /\ job' = [job EXCEPT ![o].prior = profile.status]
    /\ GoTo(o, "erase")
    /\ UNCHANGED <<person, request, subscribed, reqLock>>

(* Its updates and COMMIT.  The second factor stays as it is. *)
Erase(o) ==
    /\ pc[o] = "erase"
    /\ profile' = [profile EXCEPT !.status = "anonymized"]
    /\ email' = FALSE
    /\ history' = Append(history, <<job[o].prior, "anonymized">>)
    /\ request' = [request EXCEPT ![job[o].request].status = "completed"]
    /\ Finish(o)
    /\ UNCHANGED subscribed
------------------------------------------------------------------------------
(* cooling_off_until passes *)
WindowElapses(q) ==
    /\ request[q].window = "running"
    /\ request' = [request EXCEPT ![q].window = "elapsed"]
    /\ UNCHANGED <<person, subscribed, locks, pc, job>>

(* mfa_grace_period_ends_at passes *)
GraceEnds ==
    /\ profile.grace
    /\ profile' = [profile EXCEPT !.grace = FALSE]
    /\ UNCHANGED <<email, history, request, subscribed, locks, pc, job>>

(* A webhook opens or ends a subscription; see Subscriptions. *)
Webhook ==
    /\ profile.status # "absent"
    /\ ProfileFree
    /\ subscribed' = ~subscribed
    /\ UNCHANGED <<person, request, locks, pc, job>>

Init ==
    /\ profile = [status |-> "absent", mfa |-> "off", grace |-> FALSE]
    /\ email = FALSE /\ history = <<>>
    /\ request = [q \in Requests |-> [status |-> "absent", window |-> "unset"]]
    /\ subscribed = FALSE
    /\ profLock = None /\ reqLock = [q \in Requests |-> None]
    /\ pc = [p \in Procs |-> "idle"] /\ job = [p \in Procs |-> NoJob]

(* admin_suspend and admin_restore *)
StatusRequest == \E to \in {"suspended", "active"} : SetCustomerStatus(to)

(* admin_set_mfa_required *)
MfaRequest == \E required \in BOOLEAN : SetMfaRequirement(required)

(* account_mfa_status *)
MfaStatus(s) ==
    \/ Admit(s, "mfa", TRUE)
    \/ \E enabled \in BOOLEAN : SetMfaRequired(s, enabled)

(* deletion_request_create and deletion_request_cancel *)
DeletionRequest(s) ==
    \/ \E what \in {"request", "cancel"}, aal2 \in BOOLEAN : Admit(s, what, aal2)
    \/ FindOpen(s) \/ PassOver(s) \/ ReturnOpen(s)
    \/ \E q \in Requests : InsertRequest(s, q)
    \/ LockCanceled(s) \/ CommitCancel(s)

(* admin_deletion_advance, _reject and _execute *)
DeletionDecision(o) ==
    \/ \E q \in Requests : LockRequest(o, q)
    \/ AdvanceRequest(o) \/ RejectRequest(o) \/ BeginErasure(o) \/ Erase(o)

Environment == GraceEnds \/ Webhook \/ \E q \in Requests : WindowElapses(q)

Next ==
    \/ Provision \/ StatusRequest \/ MfaRequest
    \/ \E s \in Sessions : MfaStatus(s) \/ DeletionRequest(s)
    \/ \E o \in Operators : DeletionDecision(o)
    \/ \E p \in Procs : Abort(p)
    \/ Environment

Spec == Init /\ [][Next]_vars
------------------------------------------------------------------------------
(* Properties.                                                              *)

(* docs/PRIVACY.md, "States": a request only ever takes the steps drawn     *)
(* there, so a canceled or rejected request is never executed and one that  *)
(* is processing is not canceled, however customers and operators overlap.  *)
Workflow == [absent      |-> {"requested"},
             requested   |-> {"verified", "rejected", "canceled"},
             verified    |-> {"cooling_off", "rejected", "canceled"},
             cooling_off |-> {"processing", "rejected", "canceled"},
             processing  |-> {"completed"},
             completed   |-> {}, rejected |-> {}, canceled |-> {}]

WorkflowKept ==
    [][\A q \in Requests :
          request'[q].status # request[q].status =>
              request'[q].status \in Workflow[request[q].status]]_vars

(* An account is anonymized by the execution of a request and in no other   *)
(* way, and a request is executed only after its cooling-off time ("fails   *)
(* closed while it has not elapsed", docs/PRIVACY.md).                      *)
ErasedByRequest ==
    /\ (\E n \in 1 .. Len(history) : history[n][2] = "anonymized") <=>
           (\E q \in Requests : request[q].status = "completed")
    /\ \A q \in Requests :
           request[q].status \in {"processing", "completed"} => request[q].window = "elapsed"

(* customer_status_history tells the whole story: every change starts where *)
(* the last one ended, the profile was created once, the last change is     *)
(* what the profile says, and nothing but a second erasure repeats itself.  *)
(* The order is that of the COMMITs; created_at is the beginning's now().   *)
HistoryChains ==
    /\ Len(history) > 0 => history[1][1] = "absent"
    /\ \A n \in 1 .. Len(history) :
          /\ history[n][2] # "absent"
          /\ n > 1 => history[n][1] = history[n - 1][2]
          /\ history[n][1] = history[n][2] => history[n][2] = "anonymized"
    /\ profile.status = IF history = <<>> THEN "absent" ELSE history[Len(history)][2]
------------------------------------------------------------------------------
(* What the documents say and the code does not keep: TLC refutes each as a *)
(* further property of the run.                                             *)

(* "One non-terminal request exists at a time" (privacy.rs). *)
OneOpenRequest == \A q, r \in Requests : Open(q) /\ Open(r) => q = r

(* Self-service and operator-forced requirements "enforce immediately by    *)
(* design" (customers.rs): they leave no time of grace.                     *)
EnforcedAtOnce == profile.mfa = "demanded" => ~Admitted(FALSE)
==============================================================================
