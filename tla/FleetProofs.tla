----------------------------- MODULE FleetProofs -----------------------------
(***************************************************************************)
(* Proofs about Fleet, for any number of operators, lookups, releases and  *)
(* campaigns.                                                              *)
(***************************************************************************)
EXTENDS Fleet, TLAPS

Arts == [status: {"absent", "validated", "quarantined"}, content: Contents \cup {None}]
Camps == [status: {"absent", "draft", "active", "paused", "revoked"},
          release: Releases \cup {None}, rollout: 0 .. 100, suits: BOOLEAN, started: BOOLEAN]
Jobs == [release: Releases \cup {None}, found: Statuses, kind: Kinds \cup {None},
         campaign: Campaigns \cup {None}, targets: SUBSET Campaigns,
         installation: Installations \cup {None}]
Places == {"idle", "release", "pause", "resume", "create", "offer"}

(* What a process has checked and still relies on: the status of the        *)
(* release it has locked ...                                                *)
ReleaseHeld(o) ==
    pc[o] = "release" \/ (pc[o] = "pause" /\ job[o].kind = None) =>
        /\ job[o].release \in Releases
        /\ relLock[job[o].release] = o
        /\ release[job[o].release] = job[o].found
        /\ job[o].found # "absent"

(* ... the artifact it will quarantine ...                                  *)
ArtifactKnown(o) ==
    pc[o] = "pause" /\ job[o].kind # None =>
        /\ job[o].release \in Releases
        /\ artifact[job[o].release][job[o].kind].status # "absent"

(* ... the campaign it has locked to resume it, whose release had been      *)
(* published ...                                                            *)
CampaignHeld(o) ==
    pc[o] = "resume" =>
        LET c == job[o].campaign
        IN  /\ c \in Campaigns
            /\ campLock[c] = o
            /\ campaign[c].status \in {"draft", "paused"}
            /\ campaign[c].release \in Releases
            /\ release[campaign[c].release] \in {"published", "blocked"}

(* ... and the campaigns it will pause, which are active.                   *)
PausesActive(o) ==
    \A c \in Campaigns : campLock[c] = o =>
        /\ pc[o] \in {"pause", "resume"}
        /\ pc[o] = "pause" => campaign[c].status = "active"
        /\ pc[o] = "resume" => c = job[o].campaign

JobFits(p) ==
    /\ pc[p] = "idle" => job[p] = NoJob
    /\ pc[p] = "release" => job[p].kind = None
    /\ pc[p] = "create" => job[p].release \in Releases /\ job[p].campaign \in Campaigns
    /\ pc[p] = "offer" => job[p].installation \in Installations /\ job[p].campaign \in Campaigns

ProcInv(p) ==
    ReleaseHeld(p) /\ ArtifactKnown(p) /\ CampaignHeld(p) /\ PausesActive(p) /\ JobFits(p)

TargetKnown == \A c \in Campaigns : campaign[c].status # "absent" => campaign[c].release \in Releases

IInv == TypeOK /\ TargetKnown /\ ActiveWasPublished /\ \A p \in Procs : ProcInv(p)

(* What no step does to the rows. *)
ReleasesKept ==
    \A r \in Releases :
        /\ release[r] \in {"published", "blocked"} => release'[r] \in {"published", "blocked"}
        /\ release[r] = "blocked" => release'[r] = "blocked"
RevokedKept == \A c \in Campaigns : campaign[c].status = "revoked" => campaign'[c].status = "revoked"
ArtifactsKept ==
    \A r \in Releases, k \in Kinds :
        /\ release[r] \in {"published", "blocked"} /\ artifact[r][k].status = "absent" =>
               artifact'[r][k].status = "absent"
        /\ artifact[r][k].status # "absent" =>
               /\ artifact'[r][k].content = artifact[r][k].content
               /\ artifact'[r][k].status # "absent"
        /\ artifact[r][k].status = "quarantined" => artifact'[r][k].status = "quarantined"
RowsKept == ReleasesKept /\ RevokedKept /\ ArtifactsKept

(* What a step does to a process that does not take it. *)
Aside(o) ==
    /\ pc'[o] = pc[o] /\ job'[o] = job[o]
    /\ \A r \in Releases : relLock[r] = o /\ release[r] # "absent" =>
           relLock'[r] = o /\ release'[r] = release[r]
    /\ \A c \in Campaigns :
          /\ campLock[c] = o <=> campLock'[c] = o
          /\ campLock[c] = o => /\ campaign'[c].status = campaign[c].status
                                /\ campaign'[c].release = campaign[c].release

LEMMA NoneApart == None \notin Procs /\ None \notin Operators /\ None \notin Kinds
BY FleetAssumption DEF Procs

LEMMA Types ==
    TypeOK <=>
        /\ release \in [Releases -> Statuses] /\ artifact \in [Releases -> [Kinds -> Arts]]
        /\ campaign \in [Campaigns -> Camps]
        /\ held \subseteq Campaigns /\ running \subseteq Installations
        /\ ticket \subseteq Installations \X Campaigns
        /\ event \in [Events -> (Installations \X Campaigns) \cup {None}]
        /\ relLock \in [Releases -> Operators \cup {None}]
        /\ campLock \in [Campaigns -> Operators \cup {None}]
        /\ pc \in [Procs -> Places] /\ job \in [Procs -> Jobs]
BY Zenon DEF TypeOK, Arts, Camps, Jobs, Places

LEMMA TypesNext ==
    TypeOK' <=>
        /\ release' \in [Releases -> Statuses] /\ artifact' \in [Releases -> [Kinds -> Arts]]
        /\ campaign' \in [Campaigns -> Camps]
        /\ held' \subseteq Campaigns /\ running' \subseteq Installations
        /\ ticket' \subseteq Installations \X Campaigns
        /\ event' \in [Events -> (Installations \X Campaigns) \cup {None}]
        /\ relLock' \in [Releases -> Operators \cup {None}]
        /\ campLock' \in [Campaigns -> Operators \cup {None}]
        /\ pc' \in [Procs -> Places] /\ job' \in [Procs -> Jobs]
BY Zenon DEF TypeOK, Arts, Camps, Jobs, Places

LEMMA JobFields ==
    ASSUME TypeOK, NEW p \in Procs
    PROVE  /\ job[p] \in Jobs /\ job[p].release \in Releases \cup {None}
           /\ job[p].found \in Statuses /\ job[p].kind \in Kinds \cup {None}
           /\ job[p].campaign \in Campaigns \cup {None}
           /\ job[p].targets \subseteq Campaigns /\ job[p].installation \in Installations \cup {None}
<1>1. job[p] \in Jobs
    BY Types
<1> QED
    BY <1>1 DEF Jobs

LEMMA NoJobTyped == NoJob \in Jobs
BY DEF NoJob, Jobs, Statuses

LEMMA AsideKeeps ==
    ASSUME TypeOK, NEW o \in Procs, ProcInv(o), Aside(o), ReleasesKept, ArtifactsKept
    PROVE  ProcInv(o)'
<1>1. ReleaseHeld(o)'
    BY DEF ProcInv, ReleaseHeld, Aside
<1>2. ArtifactKnown(o)'
    BY JobFields DEF ProcInv, ArtifactKnown, Aside, ArtifactsKept
<1>3. CampaignHeld(o)'
    <2> DEFINE c == job[o].campaign
    <2>1. SUFFICES ASSUME pc'[o] = "resume"
                   PROVE  /\ c \in Campaigns /\ campLock'[c] = o
                          /\ campaign'[c].status \in {"draft", "paused"}
                          /\ campaign'[c].release \in Releases
                          /\ release'[campaign'[c].release] \in {"published", "blocked"}
        BY DEF CampaignHeld, Aside
    <2>2. /\ c \in Campaigns /\ campLock[c] = o /\ campaign[c].status \in {"draft", "paused"}
          /\ campaign[c].release \in Releases
          /\ release[campaign[c].release] \in {"published", "blocked"}
        BY <2>1 DEF ProcInv, CampaignHeld, Aside
    <2>3. /\ campLock'[c] = o /\ campaign'[c].status = campaign[c].status
          /\ campaign'[c].release = campaign[c].release
        BY <2>2 DEF Aside
    <2> QED
        BY <2>2, <2>3 DEF ReleasesKept
<1>4. PausesActive(o)'
    BY DEF ProcInv, PausesActive, Aside
<1>5. JobFits(o)'
    BY DEF ProcInv, JobFits, Aside
<1> QED
    BY <1>1, <1>2, <1>3, <1>4, <1>5 DEF ProcInv

(* The end of a transaction. *)
LEMMA FinishDoes ==
    ASSUME TypeOK, NEW p \in Procs, Finish(p)
    PROVE  /\ relLock' \in [Releases -> Operators \cup {None}]
           /\ campLock' \in [Campaigns -> Operators \cup {None}]
           /\ pc' \in [Procs -> Places] /\ job' \in [Procs -> Jobs]
           /\ pc'[p] = "idle" /\ job'[p] = NoJob
           /\ \A r \in Releases : relLock'[r] = IF relLock[r] = p THEN None ELSE relLock[r]
           /\ \A c \in Campaigns : campLock'[c] = IF campLock[c] = p THEN None ELSE campLock[c]
           /\ \A o \in Procs \ {p} : pc'[o] = pc[o] /\ job'[o] = job[o]
<1> USE DEF Finish, GoTo, Freed
<1>1. p # None /\ None \notin Operators
    BY NoneApart
<1>2. pc' \in [Procs -> Places] /\ job' \in [Procs -> Jobs]
    BY Types, NoJobTyped DEF Places
<1>3. pc'[p] = "idle" /\ job'[p] = NoJob /\ \A o \in Procs \ {p} : pc'[o] = pc[o] /\ job'[o] = job[o]
    BY Types
<1>4. relLock' \in [Releases -> Operators \cup {None}] /\ campLock' \in [Campaigns -> Operators \cup {None}]
    BY Types
<1> QED
    BY <1>1, <1>2, <1>3, <1>4, Types

LEMMA IdleNext ==
    ASSUME NEW p \in Procs, pc'[p] = "idle", job'[p] = NoJob, \A c \in Campaigns : campLock'[c] # p
    PROVE  ProcInv(p)'
BY DEF ProcInv, ReleaseHeld, ArtifactKnown, CampaignHeld, PausesActive, JobFits

(* A transaction ends: it is enough that the rows it leaves are in order    *)
(* and that it changed none that another has locked.                        *)
LEMMA CommitKeeps ==
    ASSUME IInv, NEW p \in Procs, Finish(p), RowsKept,
           release' \in [Releases -> Statuses], artifact' \in [Releases -> [Kinds -> Arts]],
           campaign' \in [Campaigns -> Camps],
           held' \subseteq Campaigns, running' \subseteq Installations,
           ticket' \subseteq Installations \X Campaigns,
           event' \in [Events -> (Installations \X Campaigns) \cup {None}],
           TargetKnown', ActiveWasPublished',
           \A r \in Releases : relLock[r] \notin {p, None} => release'[r] = release[r],
           \A c \in Campaigns : campLock[c] \notin {p, None} =>
                /\ campaign'[c].status = campaign[c].status
                /\ campaign'[c].release = campaign[c].release
    PROVE  IInv'
<1>1. TypeOK
    BY DEF IInv
<1>2. TypeOK'
    BY <1>1, FinishDoes, TypesNext
<1>3. ASSUME NEW o \in Procs PROVE ProcInv(o)'
    <2>1. CASE o = p
        BY <1>1, <2>1, FinishDoes, IdleNext, NoneApart
    <2>2. CASE o # p
        <3>0. o # None
            BY NoneApart
        <3>1. Aside(o)
            BY <1>1, <2>2, <3>0, FinishDoes DEF Aside
        <3> QED
            BY <1>1, <3>1, AsideKeeps DEF IInv, RowsKept
    <2> QED
        BY <2>1, <2>2
<1> QED
    BY <1>2, <1>3 DEF IInv

(* A step of p that ends no transaction. *)
LEMMA StepKeeps ==
    ASSUME IInv, NEW p \in Procs, RowsKept, TypeOK', TargetKnown', ActiveWasPublished', ProcInv(p)',
           \A o \in Procs \ {p} : Aside(o)
    PROVE  IInv'
<1>1. ASSUME NEW o \in Procs \ {p} PROVE ProcInv(o)'
    BY <1>1, AsideKeeps DEF IInv, RowsKept
<1> QED
    BY <1>1 DEF IInv

(* A step outside every transaction. *)
LEMMA OtherKeeps ==
    ASSUME IInv, RowsKept, TypeOK', TargetKnown', ActiveWasPublished', \A o \in Procs : Aside(o)
    PROVE  IInv'
<1>1. ASSUME NEW o \in Procs PROVE ProcInv(o)'
    BY <1>1, AsideKeeps DEF IInv, RowsKept
<1> QED
    BY <1>1 DEF IInv

(* A campaign that stays as active as it was stays in order. *)
LEMMA CampaignsInOrder ==
    ASSUME IInv, ReleasesKept,
           \A c \in Campaigns : campaign'[c].release = campaign[c].release
                              /\ (campaign'[c].status = "absent" <=> campaign[c].status = "absent")
                              /\ (campaign'[c].status = "active" => campaign[c].status = "active")
    PROVE  TargetKnown' /\ ActiveWasPublished'
<1>1. TargetKnown'
    BY DEF IInv, TargetKnown
<1>2. ASSUME NEW c \in Campaigns, campaign'[c].status = "active"
      PROVE  release'[campaign'[c].release] \in {"published", "blocked"}
    <2>1. campaign[c].status = "active" /\ campaign[c].release \in Releases
        BY <1>2 DEF IInv, TargetKnown
    <2>2. release[campaign[c].release] \in {"published", "blocked"}
        BY <2>1 DEF IInv, ActiveWasPublished
    <2> QED
        BY <1>2, <2>1, <2>2 DEF ReleasesKept
<1> QED
    BY <1>1, <1>2 DEF ActiveWasPublished

LEMMA RowsUnchanged ==
    ASSUME IInv, UNCHANGED <<catalog, campaign>>
    PROVE  RowsKept /\ TargetKnown' /\ ActiveWasPublished'
<1>1. RowsKept
    BY DEF RowsKept, ReleasesKept, RevokedKept, ArtifactsKept, catalog
<1> QED
    BY <1>1, CampaignsInOrder DEF RowsKept, catalog
------------------------------------------------------------------------------
(* Each action keeps the invariant, and what it leaves of the rows.         *)

Good == IInv' /\ RowsKept

LEMMA AbortGood ==
    ASSUME IInv, NEW p \in Procs, Abort(p) PROVE Good
<1>1. RowsKept /\ TargetKnown' /\ ActiveWasPublished'
    BY RowsUnchanged DEF Abort
<1>2. TypeOK
    BY DEF IInv
<1> QED
    BY <1>1, <1>2, Types, CommitKeeps DEF Abort, Good, catalog, fleet, outcomes

LEMMA IssueTicketGood ==
    ASSUME IInv, NEW l \in Lookups, IssueTicket(l) PROVE Good
<1>1. RowsKept /\ TargetKnown' /\ ActiveWasPublished'
    BY RowsUnchanged DEF IssueTicket
<1>2. TypeOK /\ l \in Procs
    BY DEF IInv, Procs
<1>3. job[l].installation \in Installations /\ job[l].campaign \in Campaigns
    BY <1>2 DEF IInv, ProcInv, JobFits, IssueTicket
<1>4. ticket' \subseteq Installations \X Campaigns
    BY <1>2, <1>3, Types DEF IssueTicket
<1> QED
    BY <1>1, <1>2, <1>4, Types, CommitKeeps DEF IssueTicket, Good, catalog, fleet

LEMMA QuietGood ==
    ASSUME IInv, UNCHANGED <<catalog, campaign, locks, pc, job>>,
           held' \subseteq Campaigns, running' \subseteq Installations,
           ticket' \subseteq Installations \X Campaigns,
           event' \in [Events -> (Installations \X Campaigns) \cup {None}]
    PROVE  Good
<1>1. RowsKept /\ TargetKnown' /\ ActiveWasPublished'
    BY RowsUnchanged
<1>2. TypeOK'
    BY Types, TypesNext DEF IInv, catalog, locks
<1>3. \A o \in Procs : Aside(o)
    BY DEF Aside, catalog, locks
<1> QED
    BY <1>1, <1>2, <1>3, OtherKeeps DEF Good

LEMMA HoldMutationGood ==
    ASSUME IInv, HoldMutation PROVE Good
<1>1. UNCHANGED <<catalog, campaign, running, outcomes, locks, pc, job>> /\ held' \subseteq Campaigns
    BY Types DEF IInv, HoldMutation, AddFleetHold, RemoveFleetHold
<1> QED
    BY <1>1, Types, QuietGood DEF IInv, outcomes

LEMMA OutcomeGood ==
    ASSUME IInv, Outcome PROVE Good
<1>1. PICK i \in Installations, c \in Campaigns, e \in Events : RecordEvent(i, c, e)
    BY DEF Outcome
<1>2. event' \in [Events -> (Installations \X Campaigns) \cup {None}]
    BY <1>1, Types DEF IInv, RecordEvent
<1> QED
    BY <1>1, <1>2, Types, QuietGood DEF IInv, RecordEvent, fleet

LEMMA ToggleGood ==
    ASSUME IInv, NEW i \in Installations, Toggle(i) PROVE Good
<1>1. running' \subseteq Installations
    BY Types DEF IInv, Toggle
<1> QED
    BY <1>1, Types, QuietGood DEF IInv, Toggle, outcomes

LEMMA ExpireGood ==
    ASSUME IInv, NEW i \in Installations, NEW c \in Campaigns, Expire(i, c) PROVE Good
<1>1. ticket' \subseteq Installations \X Campaigns
    BY Types DEF IInv, Expire
<1> QED
    BY <1>1, Types, QuietGood DEF IInv, Expire, fleet

(* The rows of one campaign are changed while nobody has it locked, or in   *)
(* what nobody who has it locked relies on.                                 *)
LEMMA CampaignGood ==
    ASSUME IInv, UNCHANGED <<catalog, fleet, outcomes, locks, pc, job>>, campaign' \in [Campaigns -> Camps],
           \A c \in Campaigns :
                /\ campaign'[c].release = campaign[c].release
                /\ campaign'[c].status = "absent" <=> campaign[c].status = "absent"
                /\ campaign'[c].status = "active" => campaign[c].status = "active"
                /\ campaign[c].status = "revoked" => campaign'[c].status = "revoked"
                /\ campLock[c] # None => campaign'[c].status = campaign[c].status
    PROVE  Good
<1>1. RowsKept
    BY DEF RowsKept, ReleasesKept, RevokedKept, ArtifactsKept, catalog
<1>2. TargetKnown' /\ ActiveWasPublished'
    BY <1>1, CampaignsInOrder DEF RowsKept
<1>3. TypeOK'
    BY Types, TypesNext DEF IInv, catalog, fleet, outcomes, locks
<1>4. \A o \in Procs : Aside(o)
    BY NoneApart DEF Aside, catalog, locks
<1> QED
    BY <1>1, <1>2, <1>3, <1>4, OtherKeeps DEF Good

LEMMA CampFields ==
    ASSUME TypeOK, NEW c \in Campaigns
    PROVE  /\ campaign[c] \in Camps
           /\ campaign[c].status \in {"absent", "draft", "active", "paused", "revoked"}
           /\ campaign[c].release \in Releases \cup {None} /\ campaign[c].rollout \in 0 .. 100
           /\ campaign[c].suits \in BOOLEAN /\ campaign[c].started \in BOOLEAN
<1>1. campaign[c] \in Camps
    BY Types
<1> QED
    BY <1>1 DEF Camps

LEMMA StartGood ==
    ASSUME IInv, NEW c \in Campaigns, Start(c) PROVE Good
<1>1. campaign' \in [Campaigns -> Camps]
    <2>1. campaign \in [Campaigns -> Camps] /\ campaign[c] \in Camps
        BY Types DEF IInv
    <2>2. PICK x \in Camps : x = campaign[c]
        BY <2>1
    <2>3. PICK b \in BOOLEAN : campaign' = [campaign EXCEPT ![c].started = b]
        BY Zenon DEF Start
    <2>4. [x EXCEPT !.started = b] \in Camps
        BY <2>2, <2>3 DEF Camps
    <2> QED
        BY <2>1, <2>2, <2>3, <2>4
<1>2. \A d \in Campaigns : campaign'[d].status = campaign[d].status
                          /\ campaign'[d].release = campaign[d].release
    BY Types DEF IInv, Start, Camps
<1> QED
    BY <1>1, <1>2, CampaignGood DEF Start

LEMMA SetStatusGood ==
    ASSUME IInv, NEW c \in Campaigns, NEW to \in {"paused", "revoked"}, SetCampaignStatus(c, to)
    PROVE  Good
<1>1. campaign' \in [Campaigns -> Camps]
    <2>1. campaign \in [Campaigns -> Camps] /\ campaign[c] \in Camps
        BY Types DEF IInv
    <2>2. [campaign[c] EXCEPT !.status = to] \in Camps
        BY <2>1 DEF Camps
    <2> QED
        BY <2>1, <2>2 DEF SetCampaignStatus
<1>2. /\ \A d \in Campaigns \ {c} : campaign'[d] = campaign[d]
      /\ campaign'[c].status = to /\ campaign'[c].release = campaign[c].release
    BY Types DEF IInv, SetCampaignStatus, Camps
<1> QED
    BY <1>1, <1>2, CampaignGood DEF SetCampaignStatus

LEMMA SetRolloutGood ==
    ASSUME IInv, NEW c \in Campaigns, NEW v \in Percents, SetCampaignRollout(c, v)
    PROVE  Good
<1>1. campaign' \in [Campaigns -> Camps]
    <2>1. campaign \in [Campaigns -> Camps] /\ campaign[c] \in Camps
        BY Types DEF IInv
    <2>2. v \in 0 .. 100
        BY DEF SetCampaignRollout, CleanRollout
    <2>3. PICK x \in Camps : x = campaign[c]
        BY <2>1
    <2>4. [x EXCEPT !.rollout = v] \in Camps
        BY <2>2, <2>3 DEF Camps
    <2> QED
        BY <2>1, <2>3, <2>4 DEF SetCampaignRollout
<1>2. \A d \in Campaigns : campaign'[d].status = campaign[d].status
                          /\ campaign'[d].release = campaign[d].release
    BY Types DEF IInv, SetCampaignRollout, Camps
<1> QED
    BY <1>1, <1>2, CampaignGood DEF SetCampaignRollout

LEMMA CreateReleaseGood ==
    ASSUME IInv, NEW r \in Releases, CreateRelease(r) PROVE Good
<1>1. release' \in [Releases -> Statuses]
    BY Types DEF IInv, CreateRelease, Statuses
<1>2. \A x \in Releases : release[x] # "absent" => release'[x] = release[x]
    BY Types DEF IInv, CreateRelease
<1>3. RowsKept
    BY <1>2 DEF CreateRelease, RowsKept, ReleasesKept, RevokedKept, ArtifactsKept
<1>4. TargetKnown' /\ ActiveWasPublished'
    BY <1>3, CampaignsInOrder DEF RowsKept, CreateRelease
<1>5. TypeOK'
    BY <1>1, Types, TypesNext DEF IInv, CreateRelease, fleet, outcomes, locks
<1>6. \A o \in Procs : Aside(o)
    BY <1>2 DEF Aside, CreateRelease, locks
<1> QED
    BY <1>3, <1>4, <1>5, <1>6, OtherKeeps DEF Good

LEMMA LockReleaseGood ==
    ASSUME IInv, NEW o \in Operators, NEW r \in Releases, LockRelease(o, r) PROVE Good
<1>1. TypeOK /\ o \in Procs /\ None \notin Procs /\ ProcInv(o)
    BY NoneApart DEF IInv, Procs, LockRelease, GoTo, FreeRelease
<1>2. RowsKept /\ TargetKnown' /\ ActiveWasPublished'
    BY RowsUnchanged DEF LockRelease, GoTo, FreeRelease
<1>3. /\ relLock' = [relLock EXCEPT ![r] = o] /\ pc' = [pc EXCEPT ![o] = "release"]
      /\ job' = [job EXCEPT ![o] = [NoJob EXCEPT !.release = r, !.found = release[r]]]
    BY <1>1, Types DEF LockRelease, GoTo, FreeRelease
<1>4. PICK f \in Statuses : f = release[r]
    BY <1>1, Types DEF LockRelease, GoTo, FreeRelease
<1>a. job'[o] = [NoJob EXCEPT !.release = r, !.found = f]
    BY <1>1, <1>3, <1>4, Types DEF LockRelease, GoTo, FreeRelease
<1>5. job'[o] \in Jobs /\ job'[o].release = r /\ job'[o].found = release[r] /\ job'[o].kind = None
    BY <1>4, <1>a DEF NoJob, Jobs, Statuses
<1>6. TypeOK'
    BY <1>1, <1>3, <1>5, Types, TypesNext DEF Places, catalog, fleet, outcomes, LockRelease, GoTo, FreeRelease
<1>7. ProcInv(o)'
    BY <1>1, <1>3, <1>5, Types
    DEF ProcInv, ReleaseHeld, ArtifactKnown, CampaignHeld, PausesActive, JobFits, catalog, LockRelease, GoTo, FreeRelease
<1>8. \A p \in Procs \ {o} : Aside(p)
    BY <1>1, <1>3, Types DEF Aside, catalog, LockRelease, GoTo, FreeRelease
<1> QED
    BY <1>1, <1>2, <1>6, <1>7, <1>8, StepKeeps DEF Good

LEMMA ResumeCampaignGood ==
    ASSUME IInv, NEW o \in Operators, NEW c \in Campaigns, ResumeCampaign(o, c) PROVE Good
<1> USE DEF ResumeCampaign, GoTo
<1>1. TypeOK /\ o \in Procs /\ None \notin Procs /\ ProcInv(o) /\ campaign[c].release \in Releases
    BY NoneApart DEF IInv, Procs, TargetKnown
<1>2. RowsKept /\ TargetKnown' /\ ActiveWasPublished'
    BY RowsUnchanged
<1>3. /\ campLock' = [campLock EXCEPT ![c] = o] /\ pc' = [pc EXCEPT ![o] = "resume"]
      /\ job' = [job EXCEPT ![o] = [NoJob EXCEPT !.campaign = c]]
    BY <1>1, Types
<1>4. job'[o] = [NoJob EXCEPT !.campaign = c]
    BY <1>1, <1>3, Types
<1>5. job'[o] \in Jobs /\ job'[o].campaign = c
    BY <1>4 DEF NoJob, Jobs, Statuses
<1>6. TypeOK'
    BY <1>1, <1>3, <1>5, Types, TypesNext DEF Places, catalog, fleet, outcomes
<1>7. ProcInv(o)'
    BY <1>1, <1>3, <1>5, Types
    DEF ProcInv, ReleaseHeld, ArtifactKnown, CampaignHeld, PausesActive, JobFits, catalog
<1>8. \A p \in Procs \ {o} : Aside(p)
    BY <1>1, <1>3, Types DEF Aside, catalog
<1> QED
    BY <1>1, <1>2, <1>6, <1>7, <1>8, StepKeeps DEF Good

LEMMA PauseNextGood ==
    ASSUME IInv, NEW o \in Operators, NEW c \in Campaigns, PauseNext(o, c) PROVE Good
<1> USE DEF PauseNext, StillActive
<1>1. TypeOK /\ o \in Procs /\ None \notin Procs /\ ProcInv(o)
    BY NoneApart DEF IInv, Procs
<1>2. RowsKept /\ TargetKnown' /\ ActiveWasPublished'
    BY RowsUnchanged
<1>3. job' = [job EXCEPT ![o] = [job[o] EXCEPT !.targets = job[o].targets \ {c}]]
    BY <1>1, Types
<1>4. PICK j \in Jobs : j = job[o]
    BY <1>1, JobFields
<1>a. job'[o] = [j EXCEPT !.targets = j.targets \ {c}]
    BY <1>1, <1>3, <1>4, Types
<1>5. /\ job'[o] \in Jobs /\ job'[o].release = job[o].release /\ job'[o].kind = job[o].kind
      /\ job'[o].found = job[o].found
    BY <1>4, <1>a DEF Jobs
<1>6. campLock' \in [Campaigns -> Operators \cup {None}]
    BY <1>1, Types
<1>7. TypeOK'
    BY <1>1, <1>3, <1>5, <1>6, Types, TypesNext DEF catalog, fleet, outcomes
<1>8. ProcInv(o)'
    BY <1>1, <1>5, Types
    DEF ProcInv, ReleaseHeld, ArtifactKnown, CampaignHeld, PausesActive, JobFits, catalog
<1>9. \A p \in Procs \ {o} : Aside(p)
    BY <1>1, <1>3, Types DEF Aside, catalog
<1> QED
    BY <1>1, <1>2, <1>7, <1>8, <1>9, StepKeeps DEF Good

LEMMA BlockReleaseGood ==
    ASSUME IInv, NEW o \in Operators, BlockRelease(o) PROVE Good
<1> USE DEF BlockRelease, GoTo
<1>1. TypeOK /\ o \in Procs /\ None \notin Procs /\ ProcInv(o)
    BY NoneApart DEF IInv, Procs
<1>2. RowsKept /\ TargetKnown' /\ ActiveWasPublished'
    BY RowsUnchanged
<1>a. ActiveOn(job[o].release) \in SUBSET Campaigns
    BY DEF ActiveOn
<1>3. PICK t \in SUBSET Campaigns : job' = [job EXCEPT ![o].targets = t]
    BY <1>a, Zenon
<1>4. PICK j \in Jobs : j = job[o]
    BY <1>1, JobFields
<1>5. job' = [job EXCEPT ![o] = [j EXCEPT !.targets = t]] /\ pc' = [pc EXCEPT ![o] = "pause"]
    BY <1>1, <1>3, <1>4, Types
<1>6. job'[o] = [j EXCEPT !.targets = t]
    <2>1. job \in [Procs -> Jobs]
        BY <1>1, Types
    <2> QED
        BY <1>1, <1>5, <2>1
<1>7. /\ job'[o] \in Jobs /\ job'[o].release = job[o].release /\ job'[o].kind = job[o].kind
      /\ job'[o].found = job[o].found
    BY <1>4, <1>6 DEF Jobs
<1>8. TypeOK'
    BY <1>1, <1>5, <1>7, Types, TypesNext DEF Places, catalog, fleet, outcomes, locks
<1>9. ProcInv(o)'
    BY <1>1, <1>5, <1>7, Types
    DEF ProcInv, ReleaseHeld, ArtifactKnown, CampaignHeld, PausesActive, JobFits, catalog, locks
<1>10. \A p \in Procs \ {o} : Aside(p)
    BY <1>1, <1>5, Types DEF Aside, catalog, locks
<1> QED
    BY <1>1, <1>2, <1>8, <1>9, <1>10, StepKeeps DEF Good

LEMMA QuarantineGood ==
    ASSUME IInv, NEW o \in Operators, NEW r \in Releases, NEW k \in Kinds, QuarantineArtifact(o, r, k)
    PROVE  Good
<1>1. TypeOK /\ o \in Procs /\ None \notin Procs /\ None \notin Kinds /\ ProcInv(o)
    BY NoneApart DEF IInv, Procs, QuarantineArtifact, GoTo
<1>2. RowsKept /\ TargetKnown' /\ ActiveWasPublished'
    BY RowsUnchanged DEF QuarantineArtifact, GoTo
<1>a. ActiveOn(r) \in SUBSET Campaigns
    BY DEF ActiveOn, QuarantineArtifact, GoTo
<1>3. PICK t \in SUBSET Campaigns :
          job' = [job EXCEPT ![o] = [NoJob EXCEPT !.release = r, !.kind = k, !.targets = t]]
    BY <1>a, Zenon DEF QuarantineArtifact, GoTo
<1>4. /\ pc' = [pc EXCEPT ![o] = "pause"]
      /\ job'[o] = [NoJob EXCEPT !.release = r, !.kind = k, !.targets = t]
    BY <1>1, <1>3, Types DEF QuarantineArtifact, GoTo
<1>5. job'[o] \in Jobs /\ job'[o].release = r /\ job'[o].kind = k
    BY <1>4 DEF NoJob, Jobs, Statuses
<1>6. TypeOK'
    BY <1>1, <1>3, <1>4, <1>5, Types, TypesNext DEF Places, catalog, fleet, outcomes, locks, QuarantineArtifact, GoTo
<1>7. ProcInv(o)'
    BY <1>1, <1>4, <1>5, Types
    DEF ProcInv, ReleaseHeld, ArtifactKnown, CampaignHeld, PausesActive, JobFits, catalog, locks, QuarantineArtifact, GoTo
<1>8. \A p \in Procs \ {o} : Aside(p)
    BY <1>1, <1>3, <1>4, Types DEF Aside, catalog, locks, QuarantineArtifact, GoTo
<1> QED
    BY <1>1, <1>2, <1>6, <1>7, <1>8, StepKeeps DEF Good

LEMMA ReadTargetGood ==
    ASSUME IInv, NEW o \in Operators, NEW c \in Campaigns, NEW r \in Releases, ReadTarget(o, c, r)
    PROVE  Good
<1>1. TypeOK /\ o \in Procs /\ None \notin Procs /\ ProcInv(o)
    BY NoneApart DEF IInv, Procs, ReadTarget, GoTo
<1>2. RowsKept /\ TargetKnown' /\ ActiveWasPublished'
    BY RowsUnchanged DEF ReadTarget, GoTo
<1>3. /\ pc' = [pc EXCEPT ![o] = "create"]
      /\ job' = [job EXCEPT ![o] = [NoJob EXCEPT !.release = r, !.campaign = c]]
    BY <1>1, Types DEF ReadTarget, GoTo
<1>a. job'[o] = [NoJob EXCEPT !.release = r, !.campaign = c]
    BY <1>1, <1>3, Types
<1>4. job'[o] \in Jobs /\ job'[o].release = r /\ job'[o].campaign = c
    BY <1>a DEF NoJob, Jobs, Statuses
<1>5. TypeOK'
    BY <1>1, <1>3, <1>4, Types, TypesNext DEF Places, catalog, fleet, outcomes, locks, ReadTarget, GoTo
<1>6. ProcInv(o)'
    BY <1>1, <1>3, <1>4, Types
    DEF ProcInv, ReleaseHeld, ArtifactKnown, CampaignHeld, PausesActive, JobFits, catalog, locks, ReadTarget, GoTo
<1>7. \A p \in Procs \ {o} : Aside(p)
    BY <1>1, <1>3, Types DEF Aside, catalog, locks, ReadTarget, GoTo
<1> QED
    BY <1>1, <1>2, <1>5, <1>6, <1>7, StepKeeps DEF Good

LEMMA LookupGood ==
    ASSUME IInv, NEW l \in Lookups, NEW i \in Installations, NEW c \in Campaigns, Lookup(l, i, c)
    PROVE  Good
<1>1. TypeOK /\ l \in Procs /\ None \notin Procs /\ ProcInv(l)
    BY NoneApart DEF IInv, Procs, Lookup, GoTo
<1>2. RowsKept /\ TargetKnown' /\ ActiveWasPublished'
    BY RowsUnchanged DEF Lookup, GoTo
<1>3. /\ pc' = [pc EXCEPT ![l] = "offer"]
      /\ job' = [job EXCEPT ![l] = [NoJob EXCEPT !.installation = i, !.campaign = c]]
    BY <1>1, Types DEF Lookup, GoTo
<1>a. job'[l] = [NoJob EXCEPT !.installation = i, !.campaign = c]
    BY <1>1, <1>3, Types
<1>4. job'[l] \in Jobs /\ job'[l].installation = i /\ job'[l].campaign = c
    BY <1>a DEF NoJob, Jobs, Statuses
<1>5. TypeOK'
    BY <1>1, <1>3, <1>4, Types, TypesNext DEF Places, catalog, fleet, outcomes, locks, Lookup, GoTo
<1>6. ProcInv(l)'
    BY <1>1, <1>3, <1>4, Types
    DEF ProcInv, ReleaseHeld, ArtifactKnown, CampaignHeld, PausesActive, JobFits, catalog, locks, Lookup, GoTo
<1>7. \A p \in Procs \ {l} : Aside(p)
    BY <1>1, <1>3, Types DEF Aside, catalog, locks, Lookup, GoTo
<1> QED
    BY <1>1, <1>2, <1>5, <1>6, <1>7, StepKeeps DEF Good

LEMMA InsertCampaignGood ==
    ASSUME IInv, NEW o \in Operators, NEW suits \in BOOLEAN, NEW started \in BOOLEAN,
           InsertCampaign(o, suits, started)
    PROVE  Good
<1> DEFINE c == job[o].campaign
           row == [status |-> "draft", release |-> job[o].release, rollout |-> 0,
                   suits |-> suits, started |-> started]
<1>1. TypeOK /\ o \in Procs /\ None \notin Procs /\ ProcInv(o)
    BY NoneApart DEF IInv, Procs
<1>2. c \in Campaigns /\ job[o].release \in Releases
    BY <1>1 DEF InsertCampaign, ProcInv, JobFits
<1>3. row \in Camps
    BY <1>2 DEF Camps
<1>4. campaign' = IF campaign[c].status # "absent" THEN campaign ELSE [campaign EXCEPT ![c] = row]
    BY DEF InsertCampaign
<1>5. campaign' \in [Campaigns -> Camps]
    BY <1>1, <1>2, <1>3, <1>4, Types
<1>6. \A d \in Campaigns : \/ campaign'[d] = campaign[d]
                          \/ /\ d = c /\ campaign[d].status = "absent" /\ campaign'[d].status = "draft"
                             /\ campaign'[d].release \in Releases
    BY <1>1, <1>2, <1>4, Types
<1>7. RowsKept
    BY <1>6 DEF InsertCampaign, RowsKept, ReleasesKept, RevokedKept, ArtifactsKept, catalog
<1>8. TargetKnown' /\ ActiveWasPublished'
    BY <1>6 DEF IInv, InsertCampaign, TargetKnown, ActiveWasPublished, catalog
<1>9. ASSUME NEW d \in Campaigns, campLock[d] \notin {o, None} PROVE campaign'[d] = campaign[d]
    <2>1. PICK p \in Procs : p = campLock[d]
        BY <1>1, <1>9, Types DEF Procs
    <2>2. campaign[d].status # "absent"
        BY <2>1 DEF IInv, ProcInv, PausesActive, CampaignHeld
    <2> QED
        BY <1>6, <2>2
<1> QED
    BY <1>1, <1>5, <1>7, <1>8, <1>9, Types, CommitKeeps DEF Good, InsertCampaign, catalog, fleet, outcomes

LEMMA CommitResumeGood ==
    ASSUME IInv, NEW o \in Operators, CommitResume(o) PROVE Good
<1> DEFINE c == job[o].campaign
<1>1. TypeOK /\ o \in Procs /\ None \notin Procs /\ ProcInv(o)
    BY NoneApart DEF IInv, Procs
<1>2. /\ c \in Campaigns /\ campLock[c] = o /\ campaign[c].status \in {"draft", "paused"}
      /\ campaign[c].release \in Releases
      /\ release[campaign[c].release] \in {"published", "blocked"}
    BY <1>1 DEF CommitResume, ProcInv, CampaignHeld
<1>3. PICK x \in Camps : x = campaign[c]
    BY <1>1, <1>2, Types
<1>4. [x EXCEPT !.status = "active"] \in Camps /\ [x EXCEPT !.status = "active"].status = "active"
      /\ [x EXCEPT !.status = "active"].release = campaign[c].release
    BY <1>3 DEF Camps
<1>5. campaign' = [campaign EXCEPT ![c] = [x EXCEPT !.status = "active"]]
    BY <1>1, <1>2, <1>3, Types DEF CommitResume
<1>6. /\ campaign' \in [Campaigns -> Camps] /\ \A d \in Campaigns \ {c} : campaign'[d] = campaign[d]
      /\ campaign'[c].status = "active" /\ campaign'[c].release = campaign[c].release
    BY <1>1, <1>2, <1>4, <1>5, Types
<1>7. RowsKept
    BY <1>2, <1>6 DEF CommitResume, RowsKept, ReleasesKept, RevokedKept, ArtifactsKept, catalog
<1>8. TargetKnown' /\ ActiveWasPublished'
    BY <1>2, <1>6 DEF IInv, CommitResume, TargetKnown, ActiveWasPublished, catalog
<1> QED
    BY <1>1, <1>2, <1>6, <1>7, <1>8, Types, CommitKeeps
    DEF Good, CommitResume, catalog, fleet, outcomes

(* What an operator who has the release locked makes of its status. *)
LEMMA ReleaseGood ==
    ASSUME IInv, NEW o \in Operators, Finish(o), UNCHANGED <<campaign, fleet, outcomes>>,
           pc[o] = "release", NEW r \in Releases, r = job[o].release, NEW to \in Statuses \ {"absent"},
           release' = [release EXCEPT ![r] = to],
           job[o].found = "blocked" => to = "blocked",
           job[o].found = "published" => to \in {"published", "blocked"},
           artifact' \in [Releases -> [Kinds -> Arts]], ArtifactsKept
    PROVE  Good
<1>1. TypeOK /\ o \in Procs /\ None \notin Procs /\ ProcInv(o)
    BY NoneApart DEF IInv, Procs
<1>2. relLock[r] = o /\ release[r] = job[o].found
    BY <1>1, Zenon DEF ProcInv, ReleaseHeld
<1>3. release' \in [Releases -> Statuses] /\ release'[r] = to
      /\ \A x \in Releases \ {r} : release'[x] = release[x]
    BY <1>1, Types
<1>4. RowsKept
    BY <1>2, <1>3 DEF RowsKept, ReleasesKept, RevokedKept
<1>5. TargetKnown' /\ ActiveWasPublished'
    BY <1>4, CampaignsInOrder DEF RowsKept
<1> QED
    BY <1>1, <1>2, <1>3, <1>4, <1>5, Types, CommitKeeps DEF Good, fleet, outcomes

LEMMA ArtFields ==
    ASSUME TypeOK, NEW r \in Releases, NEW k \in Kinds
    PROVE  artifact[r] \in [Kinds -> Arts] /\ artifact[r][k] \in Arts
BY Types

LEMMA RegisterArtifactGood ==
    ASSUME IInv, NEW o \in Operators, NEW k \in Kinds, NEW x \in Contents, RegisterArtifact(o, k, x)
    PROVE  Good
<1> DEFINE r == job[o].release
<1>1. TypeOK /\ o \in Procs /\ ProcInv(o) /\ pc[o] = "release"
      /\ Finish(o) /\ UNCHANGED <<campaign, fleet, outcomes>>
    BY DEF IInv, Procs, RegisterArtifact
<1>2. r \in Releases /\ release[r] = job[o].found /\ job[o].found \in Statuses \ {"absent"}
    BY <1>1, JobFields DEF ProcInv, ReleaseHeld
<1>3. CASE UNCHANGED catalog
    <2>1. RowsKept /\ TargetKnown' /\ ActiveWasPublished'
        BY <1>1, <1>3, RowsUnchanged
    <2> QED
        BY <1>1, <1>3, <2>1, Types, CommitKeeps DEF Good, catalog, fleet, outcomes
<1>4. CASE /\ artifact[r][k].status = "absent"
           /\ artifact' = [artifact EXCEPT ![r][k] = [status |-> "validated", content |-> x]]
           /\ release' = IF job[o].found = "draft"
                         THEN [release EXCEPT ![r] = "artifacts_pending"] ELSE release
    <2>1. [status |-> "validated", content |-> x] \in Arts
        BY DEF Arts
    <2>2. /\ artifact' \in [Releases -> [Kinds -> Arts]]
          /\ \A s \in Releases, h \in Kinds : s # r \/ h # k => artifact'[s][h] = artifact[s][h]
        BY <1>1, <1>2, <1>4, <2>1, Types
    <2>3. job[o].found \notin {"published", "blocked"}
        BY DEF RegisterArtifact
    <2>4. ArtifactsKept
        BY <1>2, <1>4, <2>2, <2>3 DEF ArtifactsKept
    <2>5. PICK to \in Statuses \ {"absent"} : release' = [release EXCEPT ![r] = to]
        <3>1. release = [release EXCEPT ![r] = release[r]]
            BY <1>1, <1>2, Types
        <3>2. CASE job[o].found = "draft"
            BY <1>4, <3>2 DEF Statuses
        <3>3. CASE job[o].found # "draft"
            BY <1>2, <1>4, <3>1, <3>3
        <3> QED
            BY <3>2, <3>3
    <2> QED
        BY <1>1, <1>2, <2>2, <2>3, <2>4, <2>5, ReleaseGood
<1> QED
    BY <1>3, <1>4 DEF RegisterArtifact

LEMMA ValidateReleaseGood ==
    ASSUME IInv, NEW o \in Operators, ValidateRelease(o) PROVE Good
<1> DEFINE r == job[o].release
<1>1. TypeOK /\ o \in Procs /\ ProcInv(o) /\ pc[o] = "release"
      /\ Finish(o) /\ UNCHANGED <<artifact, campaign, fleet, outcomes>>
    BY DEF IInv, Procs, ValidateRelease
<1>2. r \in Releases /\ release[r] = job[o].found /\ job[o].found \in Statuses \ {"absent"}
    BY <1>1, JobFields DEF ProcInv, ReleaseHeld
<1>3. CASE AlreadyValid(job[o].found)
    <2>1. UNCHANGED catalog
        BY <1>3 DEF ValidateRelease, catalog
    <2>2. RowsKept /\ TargetKnown' /\ ActiveWasPublished'
        BY <1>1, <2>1, RowsUnchanged
    <2> QED
        BY <1>1, <2>1, <2>2, Types, CommitKeeps DEF Good, catalog, fleet, outcomes
<1>4. CASE ~AlreadyValid(job[o].found)
    <2>1. release' = [release EXCEPT ![r] = "validated"] /\ "validated" \in Statuses \ {"absent"}
        BY <1>4 DEF ValidateRelease, Statuses
    <2>2. job[o].found \notin {"published", "blocked"}
        BY <1>4 DEF ValidateRelease, AlreadyValid
    <2>3. ArtifactsKept /\ artifact' \in [Releases -> [Kinds -> Arts]]
        BY <1>1, Types DEF ArtifactsKept
    <2> QED
        BY <1>1, <1>2, <2>1, <2>2, <2>3, ReleaseGood
<1> QED
    BY <1>3, <1>4

LEMMA PublishReleaseGood ==
    ASSUME IInv, NEW o \in Operators, PublishRelease(o) PROVE Good
<1> DEFINE r == job[o].release
<1>1. TypeOK /\ o \in Procs /\ ProcInv(o) /\ pc[o] = "release"
      /\ Finish(o) /\ UNCHANGED <<artifact, campaign, fleet, outcomes>>
    BY DEF IInv, Procs, PublishRelease
<1>2. r \in Releases
    BY <1>1, JobFields DEF ProcInv, ReleaseHeld
<1>3. /\ release' = [release EXCEPT ![r] = "published"] /\ "published" \in Statuses \ {"absent"}
      /\ job[o].found \in {"validated", "published"}
    BY DEF PublishRelease, Statuses
<1>4. ArtifactsKept /\ artifact' \in [Releases -> [Kinds -> Arts]]
    BY <1>1, Types DEF ArtifactsKept
<1> QED
    BY <1>1, <1>2, <1>3, <1>4, ReleaseGood

LEMMA CommitPauseGood ==
    ASSUME IInv, NEW o \in Operators, CommitPause(o) PROVE Good
<1> DEFINE r == job[o].release
           k == job[o].kind
<1>1. TypeOK /\ o \in Procs /\ None \notin Procs /\ ProcInv(o) /\ pc[o] = "pause"
      /\ Finish(o) /\ UNCHANGED <<fleet, outcomes>>
    BY NoneApart DEF IInv, Procs, CommitPause
<1>2. campaign' = [c \in Campaigns |-> IF campLock[c] = o
                      THEN [campaign[c] EXCEPT !.status = "paused"] ELSE campaign[c]]
    BY DEF CommitPause
<1>3. ASSUME NEW c \in Campaigns
      PROVE  /\ campaign'[c] \in Camps /\ campaign'[c].release = campaign[c].release
             /\ campLock[c] # o => campaign'[c] = campaign[c]
             /\ campLock[c] = o => campaign'[c].status = "paused" /\ campaign[c].status = "active"
    <2>1. PICK x \in Camps : x = campaign[c]
        BY <1>1, Types
    <2>2. CASE campLock[c] = o
        <3>1. campaign'[c] = [x EXCEPT !.status = "paused"]
            BY <1>2, <2>1, <2>2
        <3>2. campaign'[c] \in Camps /\ campaign'[c].release = x.release /\ campaign'[c].status = "paused"
            BY <3>1 DEF Camps
        <3>3. campaign[c].status = "active"
            BY <1>1, <2>2 DEF ProcInv, PausesActive
        <3> QED
            BY <2>1, <2>2, <3>2, <3>3
    <2>3. CASE campLock[c] # o
        BY <1>2, <2>1, <2>3
    <2> QED
        BY <2>2, <2>3
<1>4. campaign' \in [Campaigns -> Camps] /\ RevokedKept
    BY <1>2, <1>3 DEF RevokedKept
<1>5. /\ release' \in [Releases -> Statuses] /\ artifact' \in [Releases -> [Kinds -> Arts]]
      /\ ReleasesKept /\ ArtifactsKept
      /\ \A x \in Releases : relLock[x] \notin {o, None} => release'[x] = release[x]
    <2>1. CASE k = None
        <3>1. r \in Releases /\ relLock[r] = o
            BY <1>1, <2>1 DEF ProcInv, ReleaseHeld
        <3>2. release' = [release EXCEPT ![r] = "blocked"] /\ artifact' = artifact
            BY <2>1 DEF CommitPause
        <3>3. release' \in [Releases -> Statuses] /\ artifact' \in [Releases -> [Kinds -> Arts]]
            BY <1>1, <3>2, Types DEF Statuses
        <3> QED
            BY <1>1, <3>1, <3>2, <3>3, Types DEF ReleasesKept, ArtifactsKept
    <2>2. CASE k # None
        <3>1. r \in Releases /\ k \in Kinds /\ artifact[r][k].status # "absent"
            BY <1>1, <2>2, JobFields DEF ProcInv, ArtifactKnown
        <3>2. PICK a \in Arts : a = artifact[r][k]
            BY <1>1, <3>1, ArtFields
        <3>3. release' = release /\ artifact' = [artifact EXCEPT ![r][k].status = "quarantined"]
            BY <2>2 DEF CommitPause
        <3>4. artifact' = [artifact EXCEPT ![r] = [artifact[r] EXCEPT ![k] = [a EXCEPT !.status = "quarantined"]]]
            BY <1>1, <3>1, <3>2, <3>3, Types
        <3>5. /\ [a EXCEPT !.status = "quarantined"] \in Arts
              /\ [a EXCEPT !.status = "quarantined"].status = "quarantined"
              /\ [a EXCEPT !.status = "quarantined"].content = artifact[r][k].content
            BY <3>2 DEF Arts
        <3>6. /\ artifact' \in [Releases -> [Kinds -> Arts]]
              /\ artifact'[r][k].status = "quarantined" /\ artifact'[r][k].content = artifact[r][k].content
              /\ \A x \in Releases, h \in Kinds : x # r \/ h # k => artifact'[x][h] = artifact[x][h]
            BY <1>1, <3>1, <3>4, <3>5, Types
        <3>7. ArtifactsKept
            BY <3>1, <3>6 DEF ArtifactsKept
        <3> QED
            BY <1>1, <3>3, <3>6, <3>7, Types DEF ReleasesKept
    <2> QED
        BY <2>1, <2>2
<1>6. TargetKnown' /\ ActiveWasPublished'
    BY <1>3, <1>5, CampaignsInOrder
<1> QED
    BY <1>1, <1>3, <1>4, <1>5, <1>6, Types, CommitKeeps DEF Good, RowsKept, fleet, outcomes
------------------------------------------------------------------------------
LEMMA InitGood == Init => IInv
<1> SUFFICES ASSUME Init PROVE IInv
    OBVIOUS
<1> USE DEF Init
<1>1. campaign \in [Campaigns -> Camps]
    BY DEF Camps
<1>2. job \in [Procs -> Jobs] /\ pc \in [Procs -> Places]
    BY NoJobTyped DEF Places
<1>3. release \in [Releases -> Statuses] /\ artifact \in [Releases -> [Kinds -> Arts]]
    BY DEF Statuses, Arts
<1>4. TypeOK
    BY <1>1, <1>2, <1>3, Types
<1>5. \A p \in Procs : ProcInv(p)
    BY NoneApart DEF ProcInv, ReleaseHeld, ArtifactKnown, CampaignHeld, PausesActive, JobFits
<1>6. TargetKnown /\ ActiveWasPublished
    BY DEF TargetKnown, ActiveWasPublished
<1> QED
    BY <1>4, <1>5, <1>6 DEF IInv

LEMMA NextGood == IInv /\ [Next]_vars => Good
<1> SUFFICES ASSUME IInv, [Next]_vars PROVE Good
    OBVIOUS
<1>1. ASSUME NEW o \in Operators, OperatorStep(o) PROVE Good
    BY <1>1, LockReleaseGood, RegisterArtifactGood, ValidateReleaseGood, PublishReleaseGood,
       BlockReleaseGood, QuarantineGood, PauseNextGood, CommitPauseGood, ReadTargetGood,
       InsertCampaignGood, ResumeCampaignGood, CommitResumeGood
    DEF OperatorStep, ReleaseRequest, QuarantineRequest, CampaignRequest, ResumeRequest
<1>2. ASSUME NEW l \in Lookups, UpdateCheck(l) PROVE Good
    BY <1>2, LookupGood, IssueTicketGood DEF UpdateCheck
<1>3. CASE ReleaseIntake \/ CampaignMutation
    BY <1>3, CreateReleaseGood, SetStatusGood, SetRolloutGood DEF ReleaseIntake, CampaignMutation
<1>4. CASE Environment
    BY <1>4, StartGood, ToggleGood, ExpireGood DEF Environment
<1>5. CASE UNCHANGED vars
    BY <1>5, QuietGood, Types DEF IInv, vars, fleet, outcomes
<1> QED
    BY <1>1, <1>2, <1>3, <1>4, <1>5, AbortGood, HoldMutationGood, OutcomeGood DEF Next

LEMMA InvariantHolds == Spec => []IInv
<1>1. IInv /\ [Next]_vars => IInv'
    BY NextGood DEF Good
<1> QED
    BY InitGood, <1>1, PTL DEF Spec

(* Every reachable state of releases, artifacts, campaigns and              *)
(* transactions is well formed, for any number of each.                     *)
THEOREM TypeCorrect == Spec => []TypeOK
<1>1. IInv => TypeOK
    BY DEF IInv
<1> QED
    BY InvariantHolds, <1>1, PTL

(* An active campaign rolls out a release that is or was published, however *)
(* the resumption of campaigns overlaps with blocking and publishing:       *)
(* resume_campaign reads the release without a lock, but a published        *)
(* release becomes nothing but blocked while the campaign's row is held.    *)
THEOREM ActiveArePublished == Spec => []ActiveWasPublished
<1>1. IInv => ActiveWasPublished
    BY DEF IInv
<1> QED
    BY InvariantHolds, <1>1, PTL

(* Revoked campaigns and blocked releases stay as they are: the UPDATE that *)
(* pauses campaigns looks at each again when it gets its lock, and          *)
(* whoever changes a release has held its row since reading its status.     *)
THEOREM WithdrawalIsFinal == Spec => WithdrawnIsFinal
<1>1. Good => [/\ \A c \in Campaigns : campaign[c].status = "revoked" => campaign'[c].status = "revoked"
               /\ \A r \in Releases : release[r] = "blocked" => release'[r] = "blocked"]_vars
    BY DEF Good, RowsKept, ReleasesKept, RevokedKept
<1> QED
    BY InvariantHolds, NextGood, <1>1, PTL DEF Spec, WithdrawnIsFinal

(* A published or blocked release gets no artifact, and no artifact changes *)
(* but into quarantine: registration holds the release's row from its check *)
(* to its INSERT, and quarantine does not touch the content.                *)
THEOREM ArtifactsAreImmutable == Spec => ArtifactsImmutable
<1>1. Good => [\A r \in Releases, k \in Kinds :
          /\ release[r] \in {"published", "blocked"} /\ artifact[r][k].status = "absent" =>
                 artifact'[r][k].status = "absent"
          /\ artifact[r][k].status # "absent" =>
                 artifact'[r][k].content = artifact[r][k].content
          /\ artifact[r][k].status = "quarantined" => artifact'[r][k].status = "quarantined"]_vars
    BY DEF Good, RowsKept, ArtifactsKept
<1> QED
    BY InvariantHolds, NextGood, <1>1, PTL DEF Spec, ArtifactsImmutable
==============================================================================
