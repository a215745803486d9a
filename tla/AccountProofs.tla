---------------------------- MODULE AccountProofs ----------------------------
(***************************************************************************)
(* Proofs about Account, for any number of requests of the customer, of    *)
(* operators and of deletion requests.                                     *)
(***************************************************************************)
EXTENDS Account, TLAPS

Profiles == [status: Statuses, grace: BOOLEAN, mfa: {"off", "default", "demanded"}]
DeletionRequests == [status: Stages, window: {"unset", "running", "elapsed"}]
Places == {"idle", "request", "cancel", "mfa", "find", "find_cancel", "commit_cancel",
           "decide", "erase"}
Jobs == [request: Requests \cup {0}, open: SUBSET Requests, known: SUBSET Requests,
         prior: Statuses]

(* A transaction past the lock of a deletion request still has it, and what *)
(* it has checked of the request and the profile is still so.               *)
Held(p) ==
    LET q == job[p].request
    IN  /\ pc[p] \in {"commit_cancel", "decide", "erase"} =>
              q \in Requests /\ reqLock[q] = p /\ request[q].status # "absent"
        /\ pc[p] = "commit_cancel" => Early(request[q].status)
        /\ pc[p] = "erase" => /\ request[q].status = "processing"
                              /\ profLock = p
                              /\ job[p].prior = profile.status
AllHeld == \A p \in Procs : Held(p)

(* Nothing happens before the profile exists. *)
Present ==
    profile.status = "absent" => /\ \A q \in Requests : request[q].status = "absent"
                                 /\ \A p \in Procs : pc[p] = "idle"
                                 /\ profLock = None

IInv == TypeOK /\ AllHeld /\ Present /\ ErasedByRequest /\ HistoryChains

LEMMA NoneApart == None \notin Procs /\ 0 \notin Requests /\ NoJob \in Jobs
BY AccountAssumption DEF AccountAssumption, Requests, NoJob, Jobs, Statuses

LEMMA InitIInv == Init => IInv
<1> SUFFICES ASSUME Init PROVE IInv
  OBVIOUS
<1> USE DEF Init
<1>1. TypeOK
  <2>1. profile \in Profiles
    BY Zenon DEF Profiles, Statuses
  <2>2. email \in BOOLEAN /\ subscribed \in BOOLEAN
    BY Zenon
  <2>3. /\ history \in Seq(Statuses \X Statuses)
        /\ request \in [Requests -> DeletionRequests]
        /\ profLock \in Operators \cup {None}
        /\ reqLock \in [Requests -> Procs \cup {None}]
    BY DEF DeletionRequests, Stages
  <2>4. job \in [Procs -> Jobs]
    BY NoneApart
  <2>5. pc \in [Procs -> Places]
    BY DEF Places
  <2>6. QED
    BY <2>1, <2>2, <2>3, <2>4, <2>5 DEF TypeOK, Profiles, DeletionRequests, Jobs, Places
<1>2. AllHeld /\ Present /\ ErasedByRequest /\ HistoryChains
  BY DEF AllHeld, Held, Present, ErasedByRequest, HistoryChains
<1>3. QED
  BY <1>1, <1>2 DEF IInv
------------------------------------------------------------------------------
(* Types.                                                                   *)

(* What the end of a transaction leaves behind. *)
LEMMA FinishType ==
    ASSUME TypeOK, NEW p \in Procs, Finish(p)
    PROVE  /\ profLock' \in Operators \cup {None}
           /\ reqLock' \in [Requests -> Procs \cup {None}]
           /\ pc' \in [Procs -> Places]
           /\ job' \in [Procs -> Jobs]
<1>1. job' \in [Procs -> Jobs]
  BY NoneApart DEF TypeOK, Jobs, Finish
<1>2. QED
  BY <1>1 DEF TypeOK, Places, Finish, GoTo, Freed

(* A profile with one column changed. *)
LEMMA ProfileType ==
    ASSUME TypeOK
    PROVE  /\ \A to \in Statuses : [profile EXCEPT !.status = to] \in Profiles
           /\ \A mfa \in {"off", "default", "demanded"} : [profile EXCEPT !.mfa = mfa] \in Profiles
           /\ [profile EXCEPT !.grace = FALSE] \in Profiles
<1>1. PICK s \in Statuses, g \in BOOLEAN, m \in {"off", "default", "demanded"} :
         profile = [status |-> s, grace |-> g, mfa |-> m]
  BY Zenon DEF TypeOK
<1>2. QED
  BY <1>1, Zenon DEF Profiles

(* What a transaction knows of the request it has locked. *)
LEMMA JobHeld ==
    ASSUME IInv, NEW p \in Procs, pc[p] \in {"commit_cancel", "decide", "erase"}
    PROVE  /\ job[p].request \in Requests
           /\ reqLock[job[p].request] = p
           /\ request[job[p].request].status # "absent"
BY DEF IInv, AllHeld, Held

LEMMA NextStage ==
    ASSUME NEW status \in Stages, NextState(status) # "none"
    PROVE  /\ NextState(status) \in Workflow[status]
           /\ NextState(status) \in {"verified", "cooling_off", "processing"}
           /\ NextState(status) = "processing" <=> status = "cooling_off"
           /\ NextState(status) = "cooling_off" <=> status = "verified"
BY DEF NextState, Stages, Workflow

LEMMA TypeStep == IInv /\ [Next]_vars => TypeOK'
<1> SUFFICES ASSUME IInv, [Next]_vars PROVE TypeOK'
  OBVIOUS
<1>0. TypeOK
  BY DEF IInv
<1>1. /\ profile \in Profiles /\ request \in [Requests -> DeletionRequests]
      /\ job \in [Procs -> Jobs] /\ history \in Seq(Statuses \X Statuses)
      /\ email \in BOOLEAN /\ subscribed \in BOOLEAN
  BY <1>0 DEF TypeOK, Profiles, DeletionRequests, Jobs
<1>a. job \in [Procs -> Jobs]
  BY <1>1
(* The tables. *)
<1>2. profile' \in Profiles
  <2>1. CASE Create
    BY <2>1, Zenon DEF Create, Profiles, Statuses
  <2>2. ASSUME NEW to \in {"suspended", "active"}, SetCustomerStatus(to)
        PROVE  profile' \in Profiles
    BY <1>0, <2>2, ProfileType DEF SetCustomerStatus, Statuses
  <2>3. ASSUME NEW required \in BOOLEAN, SetMfaRequirement(required)
        PROVE  profile' \in Profiles
    BY <1>0, <2>3, ProfileType DEF SetMfaRequirement
  <2>4. ASSUME NEW s \in Sessions, NEW enabled \in BOOLEAN, SetMfaRequired(s, enabled)
        PROVE  profile' \in Profiles
    BY <1>0, <2>4, ProfileType DEF SetMfaRequired
  <2>5. ASSUME NEW o \in Operators, Erase(o) PROVE profile' \in Profiles
    BY <1>0, <2>5, ProfileType DEF Erase, Statuses
  <2>6. CASE GraceEnds
    BY <1>0, <2>6, ProfileType DEF GraceEnds
  <2>7. CASE UNCHANGED profile
    BY <1>1, <2>7
  <2>8. QED
    BY <2>1, <2>2, <2>3, <2>4, <2>5, <2>6, <2>7
    DEF Next, Provision, StatusRequest, MfaRequest, MfaStatus, DeletionRequest,
        DeletionDecision, Environment, AddEmail, Admit, FindOpen, PassOver, ReturnOpen,
        InsertRequest, LockCanceled, CommitCancel, LockRequest, AdvanceRequest,
        RejectRequest, BeginErasure, WindowElapses, Webhook, Abort, person, vars
<1>3. email' \in BOOLEAN /\ subscribed' \in BOOLEAN
  BY <1>1, Zenon
  DEF Next, Provision, StatusRequest, MfaRequest, MfaStatus, DeletionRequest,
      DeletionDecision, Environment, Create, AddEmail, SetCustomerStatus,
      SetMfaRequirement, SetMfaRequired, Admit, FindOpen, PassOver, ReturnOpen,
      InsertRequest, LockCanceled, CommitCancel, LockRequest, AdvanceRequest,
      RejectRequest, BeginErasure, Erase, GraceEnds, WindowElapses, Webhook, Abort,
      person, vars
<1>4. history' \in Seq(Statuses \X Statuses)
  <2>1. CASE Create
    BY <1>1, <2>1 DEF Create, Statuses
  <2>2. ASSUME NEW to \in {"suspended", "active"}, SetCustomerStatus(to)
        PROVE  history' \in Seq(Statuses \X Statuses)
    BY <1>1, <2>2 DEF SetCustomerStatus, Statuses, Profiles
  <2>3. ASSUME NEW o \in Operators, Erase(o) PROVE history' \in Seq(Statuses \X Statuses)
    <3>1. job[o].prior \in Statuses /\ "anonymized" \in Statuses
      BY <1>1 DEF Jobs, Procs, Statuses
    <3>2. QED
      BY <1>1, <2>3, <3>1 DEF Erase
  <2>4. CASE UNCHANGED history
    BY <1>1, <2>4
  <2>5. QED
    BY <2>1, <2>2, <2>3, <2>4
    DEF Next, Provision, StatusRequest, MfaRequest, MfaStatus, DeletionRequest,
        DeletionDecision, Environment, AddEmail, SetMfaRequirement, SetMfaRequired,
        Admit, FindOpen, PassOver, ReturnOpen, InsertRequest, LockCanceled,
        CommitCancel, LockRequest, AdvanceRequest, RejectRequest, BeginErasure,
        GraceEnds, WindowElapses, Webhook, Abort, person, vars
<1>5. request' \in [Requests -> DeletionRequests]
  <2>1. ASSUME NEW s \in Sessions, NEW q \in Requests, InsertRequest(s, q)
        PROVE  request' \in [Requests -> DeletionRequests]
    BY <1>1, <2>1 DEF InsertRequest, DeletionRequests, Stages
  <2>2. ASSUME NEW s \in Sessions, CommitCancel(s)
        PROVE  request' \in [Requests -> DeletionRequests]
    BY <1>1, <2>2 DEF CommitCancel, DeletionRequests, Stages
  <2>3. ASSUME NEW o \in Operators, AdvanceRequest(o)
        PROVE  request' \in [Requests -> DeletionRequests]
    <3>1. o \in Procs /\ job[o].request \in Requests
      BY <2>3, JobHeld DEF AdvanceRequest, Procs
    <3>2. NextState(request[job[o].request].status) \in Stages
      BY <1>1, <2>3, <3>1, NextStage DEF AdvanceRequest, DeletionRequests, Stages
    <3>3. QED
      BY <1>1, <2>3, <3>1, <3>2 DEF AdvanceRequest, DeletionRequests
  <2>4. ASSUME NEW o \in Operators, RejectRequest(o) \/ Erase(o)
        PROVE  request' \in [Requests -> DeletionRequests]
    BY <1>1, <2>4 DEF RejectRequest, Erase, DeletionRequests, Stages
  <2>5. ASSUME NEW q \in Requests, WindowElapses(q)
        PROVE  request' \in [Requests -> DeletionRequests]
    BY <1>1, <2>5 DEF WindowElapses, DeletionRequests
  <2>6. CASE UNCHANGED request
    BY <1>1, <2>6
  <2>7. QED
    BY <2>1, <2>2, <2>3, <2>4, <2>5, <2>6
    DEF Next, Provision, StatusRequest, MfaRequest, MfaStatus, DeletionRequest,
        DeletionDecision, Environment, Create, AddEmail, SetCustomerStatus,
        SetMfaRequirement, SetMfaRequired, Admit, FindOpen, PassOver, ReturnOpen,
        LockCanceled, LockRequest, BeginErasure, GraceEnds, Webhook, Abort, vars
(* The transactions. *)
<1> DEFINE Locks == /\ profLock' \in Operators \cup {None}
                    /\ reqLock' \in [Requests -> Procs \cup {None}]
           Placed == pc' \in [Procs -> Places]
           Jobs1 == job' \in [Procs -> Jobs]
<1>6. ASSUME NEW p \in Procs, Finish(p) PROVE Locks /\ Placed /\ Jobs1
  BY <1>0, <1>6, FinishType
<1>7. ASSUME UNCHANGED <<locks, pc, job>> PROVE Locks /\ Placed /\ Jobs1
  <2>1. profLock' = profLock /\ reqLock' = reqLock /\ pc' = pc /\ job' = job
    BY <1>7 DEF locks
  <2>2. Locks /\ Placed
    BY <1>0, <2>1 DEF TypeOK, Places
  <2>3. Jobs1
    BY <1>a, <2>1
  <2>4. QED
    BY <2>2, <2>3
<1>8. ASSUME NEW s \in Sessions, NEW what \in {"mfa", "request", "cancel"},
             NEW aal2 \in BOOLEAN, Admit(s, what, aal2)
      PROVE  Locks /\ Placed /\ Jobs1
  BY <1>0, <1>1, <1>8 DEF Admit, GoTo, TypeOK, Places, locks
<1>9. ASSUME NEW s \in Sessions, FindOpen(s) PROVE Locks /\ Placed /\ Jobs1
  <2>1. [NoJob EXCEPT !.open = {q \in Requests : Open(q)},
                      !.known = IF pc[s] = "request" THEN Newest(Known) ELSE {}] \in Jobs
    BY NoneApart DEF Jobs, Newest, Known
  <2>2. QED
    BY <1>0, <1>1, <1>9, <2>1 DEF FindOpen, GoTo, TypeOK, Places, locks
<1>10. ASSUME NEW s \in Sessions, PassOver(s) PROVE Locks /\ Placed /\ Jobs1
  <2>1. /\ profLock' = profLock /\ reqLock' = reqLock /\ pc' = pc
        /\ \E q \in Newest(job[s].open) : job' = [job EXCEPT ![s].open = @ \ {q}]
    BY <1>10 DEF PassOver, locks
  <2>2. Jobs1
    <3>1. PICK open \in SUBSET Requests : job' = [job EXCEPT ![s].open = open]
      BY <1>a, <2>1 DEF Jobs, Procs
    <3>2. QED
      BY <1>a, <3>1 DEF Jobs
  <2>3. QED
    BY <1>0, <2>1, <2>2 DEF TypeOK, Places
<1>11. ASSUME NEW s \in Sessions, LockCanceled(s) PROVE Locks /\ Placed /\ Jobs1
  <2>1. s \in Procs /\ Newest(job[s].open) \subseteq Requests
    BY <1>1 DEF Newest, Jobs, Procs
  <2>2. \A q \in Requests : [NoJob EXCEPT !.request = q] \in Jobs
    BY NoneApart DEF Jobs
  <2>3. QED
    BY <1>0, <1>1, <1>11, <2>1, <2>2 DEF LockCanceled, GoTo, TypeOK, Places
<1>12. ASSUME NEW o \in Operators, NEW q \in Requests, LockRequest(o, q)
       PROVE  Locks /\ Placed /\ Jobs1
  <2>1. o \in Procs
    BY DEF Procs
  <2>2. [NoJob EXCEPT !.request = q] \in Jobs
    BY NoneApart DEF Jobs
  <2>3. QED
    BY <1>0, <1>1, <1>12, <2>1, <2>2 DEF LockRequest, GoTo, TypeOK, Places
<1>13. ASSUME NEW o \in Operators, BeginErasure(o) PROVE Locks /\ Placed /\ Jobs1
  <2>1. o \in Procs /\ profile.status \in Statuses
    BY <1>1 DEF Procs, Profiles
  <2>2. Jobs1
    BY <1>1, <1>13, <2>1 DEF BeginErasure, Jobs
  <2>3. QED
    BY <1>0, <1>13, <2>1, <2>2 DEF BeginErasure, GoTo, TypeOK, Places
<1> HIDE DEF Locks, Placed, Jobs1
<1>14. Locks /\ Placed /\ Jobs1
  <2>1. ASSUME NEW s \in Sessions, MfaStatus(s) \/ DeletionRequest(s)
        PROVE  Locks /\ Placed /\ Jobs1
    BY <1>6, <1>8, <1>9, <1>10, <1>11, <2>1
    DEF MfaStatus, DeletionRequest, SetMfaRequired, ReturnOpen, InsertRequest,
        CommitCancel, Procs
  <2>2. ASSUME NEW o \in Operators, DeletionDecision(o) PROVE Locks /\ Placed /\ Jobs1
    BY <1>6, <1>12, <1>13, <2>2
    DEF DeletionDecision, AdvanceRequest, RejectRequest, Erase, Procs
  <2>3. CASE Provision \/ StatusRequest \/ MfaRequest \/ Environment \/ UNCHANGED vars
    <3>1. UNCHANGED <<locks, pc, job>>
      BY <2>3
      DEF Provision, StatusRequest, MfaRequest, Environment, Create, AddEmail,
          SetCustomerStatus, SetMfaRequirement, GraceEnds, WindowElapses, Webhook, vars
    <3>2. QED
      BY <1>7, <3>1
  <2>4. QED
    BY <1>6, <2>1, <2>2, <2>3 DEF Next, Abort
<1>15. QED
  BY <1>2, <1>3, <1>4, <1>5, <1>14
  DEF TypeOK, Profiles, DeletionRequests, Jobs, Places, Locks, Placed, Jobs1
------------------------------------------------------------------------------
(* What a step does to the deletion requests.                               *)

(* The status of q stays, or takes a step of the workflow that is not the   *)
(* last one; a request that is being processed has cooled off.              *)
Moves(q) ==
    /\ \/ request'[q].status = request[q].status
       \/ /\ request'[q].status \in Workflow[request[q].status]
          /\ request'[q].status # "completed"
    /\ request'[q].status \in {"processing", "completed"} => request'[q].window = "elapsed"

LEMMA Undisturbed ==
    ASSUME IInv, NEW q \in Requests, request'[q] = request[q]
    PROVE  Moves(q)
BY DEF IInv, ErasedByRequest, Moves

LEMMA RequestTyped ==
    ASSUME IInv
    PROVE  /\ request \in [Requests -> DeletionRequests]
           /\ \A q \in Requests : request[q].status \in Stages
BY DEF IInv, TypeOK, DeletionRequests

LEMMA InsertMoves ==
    ASSUME IInv, NEW s \in Sessions, NEW r \in Requests, InsertRequest(s, r), NEW q \in Requests
    PROVE  Moves(q) /\ (request'[q].status # request[q].status => request[q].status = "absent")
<1>1. /\ request' = [request EXCEPT ![r].status = "requested"]
      /\ request[r].status = "absent"
  BY DEF InsertRequest
<1>2. request \in [Requests -> DeletionRequests]
  BY RequestTyped
<1>3. CASE q = r
  BY <1>1, <1>2, <1>3 DEF Moves, Workflow, DeletionRequests
<1>4. CASE q # r
  BY <1>1, <1>2, <1>4, Undisturbed
<1>5. QED
  BY <1>3, <1>4

(* The transactions that decide about the request they have locked. *)
LEMMA DecisionMoves ==
    ASSUME IInv, NEW p \in Procs, CommitCancel(p) \/ AdvanceRequest(p) \/ RejectRequest(p),
           NEW q \in Requests
    PROVE  Moves(q) /\ (request'[q].status # request[q].status => reqLock[q] = p)
<1> DEFINE r == job[p].request
<1>0. r \in Requests /\ reqLock[r] = p /\ request[r].status # "absent"
  BY JobHeld DEF CommitCancel, AdvanceRequest, RejectRequest
<1>1. request \in [Requests -> DeletionRequests] /\ request[r].status \in Stages
  BY <1>0, RequestTyped
<1>2. CASE CommitCancel(p) \/ RejectRequest(p)
  <2>1. \E to \in {"canceled", "rejected"} : request' = [request EXCEPT ![r].status = to]
    BY <1>2 DEF CommitCancel, RejectRequest
  <2>2. request[r].status \in {"requested", "verified", "cooling_off"}
    BY <1>2 DEF CommitCancel, RejectRequest, IInv, AllHeld, Held, Early
  <2> HIDE DEF r
  <2>3. CASE q = r
    BY <1>0, <1>1, <2>1, <2>2, <2>3 DEF Moves, Workflow, DeletionRequests
  <2>4. CASE q # r
    <3>1. request'[q] = request[q]
      BY <1>1, <2>1, <2>4
    <3>2. QED
      BY <3>1, Undisturbed
  <2>5. QED
    BY <2>3, <2>4
<1>3. CASE AdvanceRequest(p)
  <2> DEFINE next == NextState(request[r].status)
  <2>1. /\ next # "none"
        /\ request[r].status = "cooling_off" => request[r].window = "elapsed"
        /\ request' = [request EXCEPT ![r].status = next,
                                      ![r].window = IF next = "cooling_off" THEN "running" ELSE @]
    BY <1>3 DEF AdvanceRequest, Cooled
  <2>2. /\ next \in Workflow[request[r].status]
        /\ next \in {"verified", "cooling_off", "processing"}
        /\ next = "processing" <=> request[r].status = "cooling_off"
    BY <1>1, <2>1, NextStage
  <2> HIDE DEF r, next
  <2>3. CASE q = r
    <3>1. request'[q].status = next /\ (next = "processing" => request'[q].window = "elapsed")
      BY <1>0, <1>1, <2>1, <2>2, <2>3 DEF DeletionRequests
    <3>2. QED
      BY <1>0, <2>2, <2>3, <3>1 DEF Moves
  <2>4. CASE q # r
    <3>1. request'[q] = request[q]
      BY <1>1, <2>1, <2>4
    <3>2. QED
      BY <3>1, Undisturbed
  <2>5. QED
    BY <2>3, <2>4
<1>4. QED
  BY <1>2, <1>3

(* An erasure completes its request, which was processing. *)
LEMMA ErasureMoves ==
    ASSUME IInv, NEW o \in Operators, Erase(o), NEW q \in Requests
    PROVE  /\ job[o].request \in Requests /\ reqLock[job[o].request] = o
           /\ request[job[o].request].status = "processing"
           /\ request[job[o].request].window = "elapsed"
           /\ q = job[o].request => /\ request'[q].status = "completed"
                                    /\ request'[q].window = "elapsed"
           /\ q # job[o].request => request'[q] = request[q]
<1> DEFINE r == job[o].request
<1>0. o \in Procs /\ pc[o] = "erase"
  BY DEF Procs, Erase
<1>1. r \in Requests /\ reqLock[r] = o /\ request[r].status = "processing"
  BY <1>0, JobHeld DEF IInv, AllHeld, Held
<1>2. request[r].window = "elapsed"
  BY <1>1 DEF IInv, ErasedByRequest
<1>3. request' = [request EXCEPT ![r].status = "completed"]
  BY DEF Erase
<1>4. request \in [Requests -> DeletionRequests]
  BY RequestTyped
<1> HIDE DEF r
<1>5. /\ q = r => request'[q].status = "completed" /\ request'[q].window = "elapsed"
      /\ q # r => request'[q] = request[q]
  BY <1>1, <1>2, <1>3, <1>4 DEF DeletionRequests
<1>6. QED
  BY <1>1, <1>2, <1>5 DEF r

LEMMA WindowMoves ==
    ASSUME IInv, NEW r \in Requests, WindowElapses(r), NEW q \in Requests
    PROVE  Moves(q) /\ request'[q].status = request[q].status
<1>1. request \in [Requests -> DeletionRequests]
  BY RequestTyped
<1>2. request' = [request EXCEPT ![r].window = "elapsed"]
  BY DEF WindowElapses
<1>3. CASE q = r
  BY <1>1, <1>2, <1>3 DEF Moves, DeletionRequests
<1>4. CASE q # r
  BY <1>1, <1>2, <1>4, Undisturbed
<1>5. QED
  BY <1>3, <1>4
------------------------------------------------------------------------------
(* Locks and what was checked behind them.                                  *)

(* A step of a, if of anyone: the other transactions keep their locks and   *)
(* what they have read, and only a changes what a has locked.               *)
LEMMA OthersHeld ==
    ASSUME IInv, NEW a,
           \A p \in Procs \ {a} :
               /\ pc'[p] = pc[p] /\ job'[p] = job[p]
               /\ \A q \in Requests : reqLock[q] = p => reqLock'[q] = p
               /\ profLock = p => profLock' = p /\ profile'.status = profile.status,
           \A q \in Requests : \/ request'[q].status = request[q].status
                              \/ request[q].status = "absent"
                              \/ reqLock[q] = a
    PROVE  \A p \in Procs \ {a} : Held(p)'
<1> SUFFICES ASSUME NEW p \in Procs \ {a} PROVE Held(p)'
  OBVIOUS
<1>1. pc'[p] = pc[p] /\ job'[p] = job[p] /\ Held(p)
  BY DEF IInv, AllHeld
<1>2. CASE pc[p] \in {"commit_cancel", "decide", "erase"}
  <2>1. /\ job[p].request \in Requests /\ reqLock[job[p].request] = p
        /\ request[job[p].request].status # "absent"
    BY <1>1, <1>2 DEF Held
  <2>2. /\ reqLock'[job[p].request] = p
        /\ request'[job[p].request].status = request[job[p].request].status
    BY <2>1
  <2>3. QED
    BY <1>1, <2>1, <2>2 DEF Held
<1>3. CASE pc[p] \notin {"commit_cancel", "decide", "erase"}
  BY <1>1, <1>3 DEF Held
<1>4. QED
  BY <1>2, <1>3

(* The end of a transaction is no concern of the others. *)
LEMMA FinishAside ==
    ASSUME IInv, NEW p \in Procs, Finish(p),
           profLock \in {None, p} \/ profile'.status = profile.status,
           \A q \in Requests : \/ request'[q].status = request[q].status
                              \/ request[q].status = "absent"
                              \/ reqLock[q] = p
    PROVE  AllHeld'
<1>1. /\ pc' = [pc EXCEPT ![p] = "idle"] /\ job' = [job EXCEPT ![p] = NoJob]
      /\ reqLock' = [q \in Requests |-> IF reqLock[q] = p THEN None ELSE reqLock[q]]
      /\ profLock' = IF profLock = p THEN None ELSE profLock
  BY DEF Finish, GoTo, Freed
<1>2. \A r \in Procs \ {p} :
         /\ pc'[r] = pc[r] /\ job'[r] = job[r]
         /\ \A q \in Requests : reqLock[q] = r => reqLock'[q] = r
         /\ profLock = r => profLock' = r /\ profile'.status = profile.status
  BY <1>1, NoneApart DEF IInv, TypeOK
<1>3. \A r \in Procs \ {p} : Held(r)'
  BY <1>2, OthersHeld
<1>4. pc'[p] = "idle"
  BY <1>1 DEF IInv, TypeOK
<1>5. QED
  BY <1>3, <1>4 DEF AllHeld, Held

(* A step that is no transaction's, and does not touch a locked profile. *)
LEMMA AsideHeld ==
    ASSUME IInv, UNCHANGED <<locks, pc, job>>,
           profLock = None \/ profile'.status = profile.status,
           \A q \in Requests : request'[q].status = request[q].status
    PROVE  AllHeld'
<1>1. \A p \in Procs \ {None} :
         /\ pc'[p] = pc[p] /\ job'[p] = job[p]
         /\ \A q \in Requests : reqLock[q] = p => reqLock'[q] = p
         /\ profLock = p => profLock' = p /\ profile'.status = profile.status
  BY NoneApart DEF locks
<1>2. \A p \in Procs \ {None} : Held(p)'
  BY <1>1, OthersHeld
<1>3. QED
  BY <1>2, NoneApart DEF AllHeld

LEMMA HeldStep == IInv /\ [Next]_vars => AllHeld'
<1> SUFFICES ASSUME IInv, [Next]_vars PROVE AllHeld'
  OBVIOUS
<1>t. /\ profile \in Profiles /\ pc \in [Procs -> Places] /\ job \in [Procs -> Jobs]
      /\ reqLock \in [Requests -> Procs \cup {None}]
  BY DEF IInv, TypeOK, Profiles, Jobs, Places
<1>1. CASE Provision \/ StatusRequest \/ MfaRequest \/ Environment \/ UNCHANGED vars
  <2>1. UNCHANGED <<locks, pc, job>>
    BY <1>1
    DEF Provision, StatusRequest, MfaRequest, Environment, Create, AddEmail,
        SetCustomerStatus, SetMfaRequirement, GraceEnds, WindowElapses, Webhook, vars
  <2>2. profLock = None \/ profile'.status = profile.status
    <3>1. CASE Create
      BY <3>1 DEF Create, IInv, Present
    <3>2. CASE ~Create
      BY <1>1, <1>t, <3>2
      DEF Provision, StatusRequest, MfaRequest, Environment, AddEmail, ProfileFree,
          SetCustomerStatus, SetMfaRequirement, GraceEnds, WindowElapses, Webhook,
          person, vars, Profiles
    <3>3. QED
      BY <3>1, <3>2
  <2>3. \A q \in Requests : request'[q].status = request[q].status
    BY <1>1, WindowMoves
    DEF Provision, StatusRequest, MfaRequest, Environment, Create, AddEmail,
        SetCustomerStatus, SetMfaRequirement, GraceEnds, Webhook, vars
  <2>4. QED
    BY <2>1, <2>2, <2>3, AsideHeld
<1>2. ASSUME NEW s \in Sessions, NEW enabled \in BOOLEAN, SetMfaRequired(s, enabled)
      PROVE  AllHeld'
  <2>1. /\ Finish(s) /\ s \in Procs /\ profLock = None
        /\ \A q \in Requests : request'[q].status = request[q].status
    BY <1>2 DEF SetMfaRequired, ProfileFree, Procs
  <2>2. QED
    BY <2>1, FinishAside
<1>3. ASSUME NEW p \in Procs, Abort(p) \/ ReturnOpen(p) PROVE AllHeld'
  <2>1. /\ Finish(p) /\ profile' = profile
        /\ \A q \in Requests : request'[q].status = request[q].status
    BY <1>3 DEF Abort, ReturnOpen, person
  <2>2. QED
    BY <2>1, FinishAside
<1>4. ASSUME NEW s \in Sessions, NEW r \in Requests, InsertRequest(s, r) PROVE AllHeld'
  <2>1. Finish(s) /\ s \in Procs /\ profile' = profile
    BY <1>4 DEF InsertRequest, Procs, person
  <2>2. \A q \in Requests :
           request'[q].status = request[q].status \/ request[q].status = "absent"
    BY <1>4, InsertMoves
  <2>3. QED
    BY <2>1, <2>2, FinishAside
<1>5. ASSUME NEW p \in Procs, CommitCancel(p) \/ AdvanceRequest(p) \/ RejectRequest(p)
      PROVE  AllHeld'
  <2>1. Finish(p) /\ profile' = profile
    BY <1>5 DEF CommitCancel, AdvanceRequest, RejectRequest, person
  <2>2. \A q \in Requests :
           request'[q].status = request[q].status \/ reqLock[q] = p
    BY <1>5, DecisionMoves
  <2>3. QED
    BY <2>1, <2>2, FinishAside
<1>6. ASSUME NEW o \in Operators, Erase(o) PROVE AllHeld'
  <2>1. Finish(o) /\ o \in Procs
    BY <1>6 DEF Erase, Procs
  <2>2. profLock = o
    BY <1>6, <2>1 DEF Erase, IInv, AllHeld, Held
  <2>3. \A q \in Requests :
           request'[q].status = request[q].status \/ reqLock[q] = o
    BY <1>6, ErasureMoves
  <2>4. QED
    BY <2>1, <2>2, <2>3, FinishAside
(* A transaction that only begins, or looks. *)
<1>7. ASSUME NEW s \in Sessions,
             \/ \E what \in {"mfa", "request", "cancel"}, aal2 \in {TRUE, FALSE} : Admit(s, what, aal2)
             \/ FindOpen(s) \/ PassOver(s)
      PROVE  AllHeld'
  <2>1. /\ s \in Procs /\ profile' = profile /\ request' = request
        /\ profLock' = profLock /\ reqLock' = reqLock
        /\ \A p \in Procs \ {s} : pc'[p] = pc[p] /\ job'[p] = job[p]
        /\ pc'[s] \in {"mfa", "request", "cancel", "find", "find_cancel"}
    BY <1>7, <1>t DEF Admit, FindOpen, PassOver, GoTo, Procs, person, locks
  <2>2. \A p \in Procs \ {s} : Held(p)'
    BY <2>1, OthersHeld
  <2>3. QED
    BY <2>1, <2>2 DEF AllHeld, Held
<1>8. ASSUME NEW p \in Procs,
             LockCanceled(p) \/ \E q \in Requests : LockRequest(p, q)
      PROVE  AllHeld'
  <2>1. PICK q \in Requests :
           /\ reqLock[q] = None /\ request[q].status # "absent"
           /\ reqLock' = [reqLock EXCEPT ![q] = p]
           /\ job' = [job EXCEPT ![p] = [NoJob EXCEPT !.request = q]]
           /\ \/ pc' = [pc EXCEPT ![p] = "commit_cancel"] /\ Early(request[q].status)
              \/ pc' = [pc EXCEPT ![p] = "decide"]
    BY <1>8, <1>t
    DEF LockCanceled, LockRequest, RequestFree, GoTo, Early, Newest, Jobs
  <2>2. profile' = profile /\ request' = request /\ profLock' = profLock
    BY <1>8 DEF LockCanceled, LockRequest, person
  <2>3. \A r \in Procs \ {p} :
           /\ pc'[r] = pc[r] /\ job'[r] = job[r]
           /\ \A i \in Requests : reqLock[i] = r => reqLock'[i] = r
    BY <1>t, <2>1, NoneApart
  <2>4. \A r \in Procs \ {p} : Held(r)'
    BY <2>2, <2>3, OthersHeld
  <2>5. job'[p].request = q /\ reqLock'[q] = p
    BY <1>t, <2>1 DEF NoJob
  <2>6. Held(p)'
    BY <1>t, <2>1, <2>2, <2>5 DEF Held
  <2>7. QED
    BY <2>4, <2>6 DEF AllHeld
<1>9. ASSUME NEW o \in Operators, BeginErasure(o) PROVE AllHeld'
  <2>1. /\ o \in Procs /\ profLock = None /\ profLock' = o
        /\ job' = [job EXCEPT ![o].prior = profile.status]
        /\ pc' = [pc EXCEPT ![o] = "erase"] /\ pc[o] = "decide"
        /\ request[job[o].request].status = "processing"
        /\ profile' = profile /\ request' = request /\ reqLock' = reqLock
    BY <1>9 DEF BeginErasure, GoTo, ProfileFree, person, Procs
  <2>2. \A p \in Procs \ {o} : pc'[p] = pc[p] /\ job'[p] = job[p] /\ profLock # p
    BY <1>t, <2>1, NoneApart
  <2>3. \A p \in Procs \ {o} : Held(p)'
    BY <2>1, <2>2, OthersHeld
  <2>4. job'[o].request = job[o].request /\ job'[o].prior = profile.status /\ pc'[o] = "erase"
    BY <1>t, <2>1 DEF Jobs
  <2>5. job[o].request \in Requests /\ reqLock[job[o].request] = o
    BY <2>1, JobHeld
  <2>6. Held(o)'
    BY <2>1, <2>4, <2>5 DEF Held
  <2>7. QED
    BY <2>3, <2>6 DEF AllHeld
<1>10. ASSUME NEW s \in Sessions, MfaStatus(s) \/ DeletionRequest(s) PROVE AllHeld'
  <2>1. s \in Procs
    BY DEF Procs
  <2>2. QED
    BY <1>2, <1>3, <1>4, <1>5, <1>7, <1>8, <1>10, <2>1 DEF MfaStatus, DeletionRequest
<1>11. ASSUME NEW o \in Operators, DeletionDecision(o) PROVE AllHeld'
  <2>1. o \in Procs
    BY DEF Procs
  <2>2. QED
    BY <1>5, <1>6, <1>8, <1>9, <1>11, <2>1 DEF DeletionDecision
<1>12. QED
  BY <1>1, <1>3, <1>10, <1>11 DEF Next
------------------------------------------------------------------------------
(* The profile and its history.                                             *)

LEMMA PresentStep == IInv /\ [Next]_vars => Present'
<1> SUFFICES ASSUME IInv, [Next]_vars, profile'.status = "absent" PROVE Present'
  BY DEF Present
<1>1. profile \in Profiles
  BY DEF IInv, TypeOK, Profiles
<1>2. profile.status = "absent"
  BY <1>1
  DEF Next, Provision, StatusRequest, MfaRequest, MfaStatus, DeletionRequest,
      DeletionDecision, Environment, Create, AddEmail, SetCustomerStatus,
      SetMfaRequirement, SetMfaRequired, Admit, FindOpen, PassOver, ReturnOpen,
      InsertRequest, LockCanceled, CommitCancel, LockRequest, AdvanceRequest,
      RejectRequest, BeginErasure, Erase, GraceEnds, WindowElapses, Webhook, Abort,
      person, vars, Profiles
<1>3. /\ \A q \in Requests : request[q].status = "absent"
      /\ \A p \in Procs : pc[p] = "idle"
      /\ profLock = None
  BY <1>2 DEF IInv, Present
<1>4. UNCHANGED <<locks, pc>> /\ \A q \in Requests : request'[q].status = "absent"
  <2>1. CASE \E q \in Requests : WindowElapses(q)
    BY <1>3, <2>1, WindowMoves DEF WindowElapses
  <2>2. CASE ~\E q \in Requests : WindowElapses(q)
    BY <1>2, <1>3, <2>2
    DEF Next, Provision, StatusRequest, MfaRequest, MfaStatus, DeletionRequest,
        DeletionDecision, Environment, Create, AddEmail, SetCustomerStatus,
        SetMfaRequirement, SetMfaRequired, Admit, Admitted, FindOpen, PassOver,
        ReturnOpen, InsertRequest, LockCanceled, CommitCancel, LockRequest,
        AdvanceRequest, RejectRequest, BeginErasure, Erase, GraceEnds, Webhook, Abort,
        Procs, vars
  <2>3. QED
    BY <2>1, <2>2
<1>5. QED
  BY <1>3, <1>4 DEF Present, locks

(* A row is appended to the history, and the profile follows it. *)
Recorded(to) ==
    /\ history' = Append(history, <<profile.status, to>>)
    /\ profile'.status = to

LEMMA Appended ==
    ASSUME IInv, NEW to \in Statuses, Recorded(to)
    PROVE  /\ Len(history') = Len(history) + 1 /\ Len(history) \in Nat
           /\ history'[Len(history) + 1] = <<profile.status, to>>
           /\ \A n \in 1 .. Len(history) : history'[n] = history[n]
<1>1. history \in Seq(Statuses \X Statuses) /\ profile.status \in Statuses
  BY DEF IInv, TypeOK
<1>2. QED
  BY <1>1 DEF Recorded

LEMMA ChainGrows ==
    ASSUME IInv, NEW to \in Statuses \ {"absent"}, Recorded(to),
           to = profile.status => to = "anonymized"
    PROVE  HistoryChains'
<1> DEFINE last == Len(history)
<1>1. /\ Len(history') = last + 1 /\ last \in Nat
      /\ history'[last + 1] = <<profile.status, to>>
      /\ \A n \in 1 .. last : history'[n] = history[n]
  BY Appended
<1>2. /\ last > 0 => history[1][1] = "absent"
      /\ \A n \in 1 .. last :
            /\ history[n][2] # "absent"
            /\ n > 1 => history[n][1] = history[n - 1][2]
            /\ history[n][1] = history[n][2] => history[n][2] = "anonymized"
      /\ profile.status = IF history = <<>> THEN "absent" ELSE history[last][2]
  BY DEF IInv, HistoryChains
<1>3. history = <<>> <=> last = 0
  BY DEF IInv, TypeOK
<1>4. history' # <<>>
  BY <1>1
<1>5. history'[1][1] = "absent"
  BY <1>1, <1>2, <1>3
<1>6. ASSUME NEW n \in 1 .. (last + 1)
      PROVE  /\ history'[n][2] # "absent"
             /\ n > 1 => history'[n][1] = history'[n - 1][2]
             /\ history'[n][1] = history'[n][2] => history'[n][2] = "anonymized"
  <2>1. CASE n <= last
    <3>1. n \in 1 .. last /\ (n > 1 => n - 1 \in 1 .. last)
      BY <1>1, <2>1
    <3>2. QED
      BY <1>1, <1>2, <3>1
  <2>2. CASE n = last + 1
    <3>1. n > 1 => history # <<>> /\ n - 1 = last /\ last \in 1 .. last
      BY <1>1, <1>3, <2>2
    <3>2. QED
      BY <1>1, <1>2, <2>2, <3>1
  <2>3. QED
    BY <1>1, <2>1, <2>2
<1> HIDE DEF last
<1>7. profile'.status = history'[Len(history')][2]
  BY <1>1 DEF Recorded
<1>8. QED
  BY <1>1, <1>4, <1>5, <1>6, <1>7 DEF HistoryChains

LEMMA ErasureRecorded ==
    ASSUME IInv, NEW o \in Operators, Erase(o)
    PROVE  Recorded("anonymized")
<1>1. o \in Procs /\ job[o].prior = profile.status
  BY DEF Erase, IInv, AllHeld, Held, Procs
<1>2. profile \in Profiles
  BY DEF IInv, TypeOK, Profiles
<1>3. QED
  BY <1>1, <1>2 DEF Erase, Recorded, Profiles

(* The steps that append to the history, and that leave it. *)
Chronicled ==
    \/ UNCHANGED history /\ profile'.status = profile.status
    \/ \E to \in {"active", "suspended"} : Recorded(to) /\ to # profile.status
    \/ \E o \in Operators : Erase(o) /\ Recorded("anonymized")

LEMMA HistoryStep == IInv /\ [Next]_vars => Chronicled
<1> SUFFICES ASSUME IInv, [Next]_vars PROVE Chronicled
  OBVIOUS
<1>1. profile \in Profiles
  BY DEF IInv, TypeOK, Profiles
<1>2. CASE Create
  BY <1>2 DEF Create, Chronicled, Recorded
<1>3. ASSUME NEW to \in {"suspended", "active"}, SetCustomerStatus(to) PROVE Chronicled
  BY <1>1, <1>3 DEF SetCustomerStatus, Chronicled, Recorded, Profiles
<1>4. ASSUME NEW o \in Operators, Erase(o) PROVE Chronicled
  BY <1>4, ErasureRecorded DEF Chronicled
<1>5. QED
  BY <1>1, <1>2, <1>3, <1>4
  DEF Next, Provision, StatusRequest, MfaRequest, MfaStatus, DeletionRequest,
      DeletionDecision, Environment, AddEmail, SetMfaRequirement, SetMfaRequired,
      Admit, FindOpen, PassOver, ReturnOpen, InsertRequest, LockCanceled,
      CommitCancel, LockRequest, AdvanceRequest, RejectRequest, BeginErasure,
      GraceEnds, WindowElapses, Webhook, Abort, person, vars, Profiles, Chronicled

LEMMA ChainStep == IInv /\ [Next]_vars => HistoryChains'
<1> SUFFICES ASSUME IInv, [Next]_vars PROVE HistoryChains'
  OBVIOUS
<1>1. CASE UNCHANGED history /\ profile'.status = profile.status
  BY <1>1 DEF IInv, HistoryChains
<1>2. CASE \E to \in {"active", "suspended"} : Recorded(to) /\ to # profile.status
  BY <1>2, ChainGrows DEF Statuses
<1>3. CASE Recorded("anonymized")
  BY <1>3, ChainGrows DEF Statuses
<1>4. QED
  BY <1>1, <1>2, <1>3, HistoryStep DEF Chronicled

------------------------------------------------------------------------------
(* The deletion requests, in every step.                                    *)

(* Every step but an erasure. *)
LEMMA RequestStep ==
    ASSUME IInv, [Next]_vars, \A o \in Operators : ~Erase(o)
    PROVE  \A q \in Requests : Moves(q)
<1>1. CASE UNCHANGED request
  BY <1>1, Undisturbed
<1>2. ASSUME NEW s \in Sessions, DeletionRequest(s), ~UNCHANGED request
      PROVE  \A q \in Requests : Moves(q)
  <2>1. s \in Procs
    BY DEF Procs
  <2>2. QED
    BY <1>2, <2>1, InsertMoves, DecisionMoves
    DEF DeletionRequest, Admit, FindOpen, PassOver, ReturnOpen, LockCanceled
<1>3. ASSUME NEW o \in Operators, DeletionDecision(o), ~UNCHANGED request
      PROVE  \A q \in Requests : Moves(q)
  <2>1. o \in Procs
    BY DEF Procs
  <2>2. QED
    BY <1>3, <2>1, DecisionMoves DEF DeletionDecision, LockRequest, BeginErasure
<1>4. CASE Environment
  BY <1>1, <1>4, WindowMoves DEF Environment, GraceEnds, Webhook
<1>5. QED
  BY <1>1, <1>2, <1>3, <1>4
  DEF Next, Provision, StatusRequest, MfaRequest, MfaStatus, Create, AddEmail,
      SetCustomerStatus, SetMfaRequirement, SetMfaRequired, Admit, Abort, vars

LEMMA ErasedStep == IInv /\ [Next]_vars => ErasedByRequest'
<1> SUFFICES ASSUME IInv, [Next]_vars PROVE ErasedByRequest'
  OBVIOUS
<1>0. /\ (\E n \in 1 .. Len(history) : history[n][2] = "anonymized") <=>
             (\E q \in Requests : request[q].status = "completed")
      /\ \A q \in Requests :
             request[q].status \in {"processing", "completed"} => request[q].window = "elapsed"
  BY DEF IInv, ErasedByRequest
<1>1. ASSUME NEW o \in Operators, Erase(o) PROVE ErasedByRequest'
  <2>1. /\ Len(history') = Len(history) + 1 /\ Len(history) \in Nat
        /\ history'[Len(history) + 1][2] = "anonymized"
    BY <1>1, ErasureRecorded, Appended DEF Statuses
  <2>2. \E n \in 1 .. Len(history') : history'[n][2] = "anonymized"
    BY <2>1
  <2>3. \E q \in Requests : request'[q].status = "completed"
    <3>1. job[o].request \in Requests
      BY <1>1, JobHeld DEF Erase, Procs
    <3>2. QED
      BY <1>1, <3>1, ErasureMoves
  <2>4. \A q \in Requests :
           request'[q].status \in {"processing", "completed"} => request'[q].window = "elapsed"
    BY <1>0, <1>1, ErasureMoves
  <2>5. QED
    BY <2>2, <2>3, <2>4 DEF ErasedByRequest
<1>2. CASE \A o \in Operators : ~Erase(o)
  <2>1. \A q \in Requests : Moves(q)
    BY <1>2, RequestStep
  <2>2. \A q \in Requests : request'[q].status = "completed" <=> request[q].status = "completed"
    <3> SUFFICES ASSUME NEW q \in Requests
                 PROVE  request'[q].status = "completed" <=> request[q].status = "completed"
      OBVIOUS
    <3>1. request[q].status = "completed" => request'[q].status = request[q].status
      BY <2>1 DEF Moves, Workflow
    <3>2. QED
      BY <2>1, <3>1 DEF Moves
  <2>3. (\E n \in 1 .. Len(history') : history'[n][2] = "anonymized") <=>
        (\E n \in 1 .. Len(history) : history[n][2] = "anonymized")
    <3>1. CASE UNCHANGED history
      BY <3>1
    <3>2. ASSUME NEW to \in {"active", "suspended"}, Recorded(to)
          PROVE  (\E n \in 1 .. Len(history') : history'[n][2] = "anonymized") <=>
                 (\E n \in 1 .. Len(history) : history[n][2] = "anonymized")
      <4>1. /\ Len(history') = Len(history) + 1 /\ Len(history) \in Nat
            /\ history'[Len(history) + 1][2] = to
            /\ \A n \in 1 .. Len(history) : history'[n] = history[n]
        BY <3>2, Appended DEF Statuses
      <4>2. \A n \in 1 .. Len(history') : n \in 1 .. Len(history) \/ n = Len(history) + 1
        BY <4>1
      <4>3. \A n \in 1 .. Len(history) : n \in 1 .. Len(history')
        BY <4>1
      <4>4. QED
        BY <4>1, <4>2, <4>3
    <3>3. QED
      BY <1>2, <3>1, <3>2, HistoryStep DEF Chronicled
  <2>4. \A q \in Requests :
           request'[q].status \in {"processing", "completed"} => request'[q].window = "elapsed"
    BY <2>1 DEF Moves
  <2>5. QED
    BY <1>0, <2>2, <2>3, <2>4 DEF ErasedByRequest
<1>3. QED
  BY <1>1, <1>2

LEMMA IInvStep == IInv /\ [Next]_vars => IInv'
BY TypeStep, HeldStep, PresentStep, ErasedStep, ChainStep DEF IInv
------------------------------------------------------------------------------
(* Every state of the account is well-typed. *)
THEOREM TypeCorrect == Spec => []TypeOK
<1>1. IInv => TypeOK
  BY DEF IInv
<1>2. QED
  BY <1>1, InitIInv, IInvStep, PTL DEF Spec

(* An account is anonymized by the execution of a deletion request and in   *)
(* no other way, and only after the request's cooling-off time              *)
(* (privacy::execute_deletion, advance_request).                            *)
THEOREM OnlyRequestsErase == Spec => []ErasedByRequest
<1>1. IInv => ErasedByRequest
  BY DEF IInv
<1>2. QED
  BY <1>1, InitIInv, IInvStep, PTL DEF Spec

(* customer_status_history is a chain that ends at the profile's status,    *)
(* although the erasure writes a status it has read two statements before.  *)
THEOREM HistoryUnbroken == Spec => []HistoryChains
<1>1. IInv => HistoryChains
  BY DEF IInv
<1>2. QED
  BY <1>1, InitIInv, IInvStep, PTL DEF Spec

(* A deletion request only takes the documented steps, whoever decides      *)
(* about it at the same time.                                               *)
THEOREM RequestsFollowWorkflow == Spec => WorkflowKept
<1> DEFINE Step == \A q \in Requests :
                       request'[q].status # request[q].status =>
                           request'[q].status \in Workflow[request[q].status]
<1>1. IInv /\ [Next]_vars => Step
  <2> SUFFICES ASSUME IInv, [Next]_vars PROVE Step
    OBVIOUS
  <2>1. ASSUME NEW o \in Operators, Erase(o) PROVE Step
    BY <2>1, ErasureMoves DEF Workflow
  <2>2. CASE \A o \in Operators : ~Erase(o)
    BY <2>2, RequestStep DEF Moves
  <2>3. QED
    BY <2>1, <2>2
<1>2. IInv /\ [Next]_vars => [Step]_vars
  BY <1>1
<1>3. QED
  BY <1>2, InitIInv, IInvStep, PTL DEF Spec, WorkflowKept
==============================================================================
