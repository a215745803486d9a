-------------------------------- MODULE Fleet --------------------------------
(***************************************************************************)
(* Releases, their artifacts and the campaigns that roll them out to the   *)
(* installations of one fleet: the operations of operators, the update     *)
(* lookups of installations, and the tickets with which installations      *)
(* report outcomes.                                                        *)
(*                                                                         *)
(* Whoever changes a release locks its row first; whoever changes a        *)
(* campaign locks that.  But a campaign is activated after its release has *)
(* been read without a lock, a campaign is created in the same way, and    *)
(* blocking and quarantining pause only the campaigns their statement sees *)
(* as active.  A lookup is one SELECT over all these tables, and its       *)
(* ticket is written by a later statement.                                 *)
(*                                                                         *)
(* A campaign's channel and ring suit the fleet or not, for good: nothing  *)
(* changes fleet_applications, and update_fleet_policy changes columns     *)
(* that no lookup reads.  Which candidates pass the version gates depends  *)
(* on what the client reports, so a lookup may be given any of them.  No   *)
(* code retires a release or completes a campaign.                         *)
(***************************************************************************)
EXTENDS Integers

CONSTANTS
    Operators,      \* operators with the role admin, each with a transaction
    Lookups,        \* update checks
    Releases,       \* (version, build) of the product
    Kinds,          \* (platform, architecture, format, role) of an artifact
    Contents,       \* checksum, signature and other immutable metadata
    Campaigns,      \* campaign slugs
    Installations,  \* installations of the fleet
    Events,         \* ids of update events
    Percents,       \* rollout percentages operators ask for
    Bucket,         \* the HMAC bucket of a campaign and an installation
    Updater,        \* the kind of artifact a lookup asks for
    None

Procs == Operators \cup Lookups

ASSUME FleetAssumption ==
    /\ Operators \cap Lookups = {}
    /\ Updater \in Kinds
    /\ Percents \subseteq Int
    /\ Bucket \in [Campaigns \X Installations -> 0 .. 9999]
    /\ None \notin Procs \cup Releases \cup Kinds \cup Contents \cup Campaigns \cup Installations

VARIABLES
    release,        \* product_releases.status
    artifact,       \* release_artifacts
    campaign,       \* update_campaigns
    held,           \* campaigns with a hold of the fleet
    running,        \* active installations
    ticket,         \* update_outcome_tickets not expired: (installation, campaign)
    event,          \* installation_update_events
    relLock,        \* row locks on product_releases
    campLock,       \* row locks on update_campaigns
    pc, job         \* the statement a process is at, and what it has read

catalog == <<release, artifact>>
fleet == <<held, running>>
outcomes == <<ticket, event>>
locks == <<relLock, campLock>>
vars == <<catalog, campaign, fleet, outcomes, locks, pc, job>>

NoJob == [release |-> None, found |-> "absent", kind |-> None, campaign |-> None,
          targets |-> {}, installation |-> None]

Statuses == {"absent", "draft", "artifacts_pending", "validated", "published", "blocked"}

TypeOK ==
    /\ release \in [Releases -> Statuses]
    /\ artifact \in [Releases -> [Kinds -> [status: {"absent", "validated", "quarantined"},
                                            content: Contents \cup {None}]]]
    /\ campaign \in [Campaigns -> [status: {"absent", "draft", "active", "paused", "revoked"},
                                   release: Releases \cup {None}, rollout: 0 .. 100,
                                   suits: BOOLEAN, started: BOOLEAN]]
    /\ held \subseteq Campaigns
    /\ running \subseteq Installations
    /\ ticket \subseteq Installations \X Campaigns
    /\ event \in [Events -> (Installations \X Campaigns) \cup {None}]
    /\ relLock \in [Releases -> Operators \cup {None}]
    /\ campLock \in [Campaigns -> Operators \cup {None}]
    /\ pc \in [Procs -> {"idle", "release", "pause", "resume", "create", "offer"}]
    /\ job \in [Procs -> [release: Releases \cup {None}, found: Statuses,
                          kind: Kinds \cup {None}, campaign: Campaigns \cup {None},
                          targets: SUBSET Campaigns, installation: Installations \cup {None}]]
------------------------------------------------------------------------------
(* Transactions.                                                            *)

GoTo(p, where) == pc' = [pc EXCEPT ![p] = where]

Freed(lock, p) == IF lock = p THEN None ELSE lock

Finish(p) ==
    /\ relLock' = [r \in Releases |-> Freed(relLock[r], p)]
    /\ campLock' = [c \in Campaigns |-> Freed(campLock[c], p)]
    /\ GoTo(p, "idle")
    /\ job' = [job EXCEPT ![p] = NoJob]

(* An error, a refusal after the lock was taken, or a lost connection. *)
Abort(p) ==
    /\ pc[p] # "idle"
    /\ Finish(p)
    /\ UNCHANGED <<catalog, campaign, fleet, outcomes>>

(* A row that refers to the campaign and its release can be inserted. *)
Unlocked(c) == campLock[c] = None /\ relLock[campaign[c].release] = None
------------------------------------------------------------------------------
(* Releases and artifacts.                                                  *)

(* A release that is known already is only read. *)
CreateRelease(r) ==
    /\ release[r] = "absent"
    /\ release' = [release EXCEPT ![r] = "draft"]
    /\ UNCHANGED <<artifact, campaign, fleet, outcomes, locks, pc, job>>

(* The release's row is free for whoever wants to lock it. *)
AnyRelease(r) == TRUE                                           \* mutant
FreeRelease(r) == relLock[r] = None

(* lock_release_status *)
LockRelease(o, r) ==
    /\ pc[o] = "idle"
    /\ release[r] # "absent"
    /\ FreeRelease(r)
    /\ relLock' = [relLock EXCEPT ![r] = o]
    /\ job' = [job EXCEPT ![o] = [NoJob EXCEPT !.release = r, !.found = release[r]]]
    /\ GoTo(o, "release")
    /\ UNCHANGED <<catalog, campaign, fleet, outcomes, campLock>>

(* The artifact is inserted, or is known with the same metadata. *)
RegisterArtifact(o, k, x) ==
    LET r == job[o].release
    IN  /\ pc[o] = "release"
        /\ job[o].found \notin {"published", "blocked"}
        /\ \/ /\ artifact[r][k].status = "absent"
              /\ artifact' = [artifact EXCEPT ![r][k] = [status |-> "validated", content |-> x]]
              /\ release' = IF job[o].found = "draft"
                            THEN [release EXCEPT ![r] = "artifacts_pending"] ELSE release
           \/ artifact[r][k].status # "absent" /\ artifact[r][k].content = x /\ UNCHANGED catalog
        /\ Finish(o)
        /\ UNCHANGED <<campaign, fleet, outcomes>>

(* Validation of what is validated or published changes nothing. *)
Revalidated(found) == found = "validated"                       \* mutant
AlreadyValid(found) == found \in {"validated", "published"}

ValidateRelease(o) ==
    LET r == job[o].release
    IN  /\ pc[o] = "release"
        /\ job[o].found # "blocked"
        /\ AlreadyValid(job[o].found) \/ \E k \in Kinds : artifact[r][k].status = "validated"
        /\ release' = IF AlreadyValid(job[o].found) THEN release
                      ELSE [release EXCEPT ![r] = "validated"]
        /\ Finish(o)
        /\ UNCHANGED <<artifact, campaign, fleet, outcomes>>

PublishRelease(o) ==
    /\ pc[o] = "release"
    /\ job[o].found \in {"validated", "published"}
    /\ release' = [release EXCEPT ![job[o].release] = "published"]
    /\ Finish(o)
    /\ UNCHANGED <<artifact, campaign, fleet, outcomes>>

(* The campaigns that "where target_release_id = r and status = 'active'"   *)
(* finds when the UPDATE begins.                                            *)
ActiveOn(r) == {c \in Campaigns : campaign[c].release = r /\ campaign[c].status = "active"}

(* block_release until its UPDATE of the campaigns; a blocked release is    *)
(* left as it is.                                                           *)
BlockRelease(o) ==
    /\ pc[o] = "release"
    /\ job[o].found # "blocked"
    /\ job' = [job EXCEPT ![o].targets = ActiveOn(job[o].release)]
    /\ GoTo(o, "pause")
    /\ UNCHANGED <<catalog, campaign, fleet, outcomes, locks>>

(* quarantine_artifact until its UPDATE of the campaigns. *)
QuarantineArtifact(o, r, k) ==
    /\ pc[o] = "idle"
    /\ artifact[r][k].status # "absent"
    /\ job' = [job EXCEPT ![o] = [NoJob EXCEPT !.release = r, !.kind = k, !.targets = ActiveOn(r)]]
    /\ GoTo(o, "pause")
    /\ UNCHANGED <<catalog, campaign, fleet, outcomes, locks>>

(* The UPDATE waits for a row that is locked and looks at it again. *)
StillListed(c) == TRUE                                          \* mutant
StillActive(c) == campaign[c].status = "active"

PauseNext(o, c) ==
    /\ pc[o] = "pause"
    /\ c \in job[o].targets
    /\ campLock[c] = None
    /\ job' = [job EXCEPT ![o].targets = @ \ {c}]
    /\ campLock' = IF StillActive(c) THEN [campLock EXCEPT ![c] = o] ELSE campLock
    /\ UNCHANGED <<catalog, campaign, fleet, outcomes, relLock, pc>>

CommitPause(o) ==
    LET r == job[o].release
        k == job[o].kind
    IN  /\ pc[o] = "pause"
        /\ job[o].targets = {}
        /\ campaign' = [c \in Campaigns |-> IF campLock[c] = o
                            THEN [campaign[c] EXCEPT !.status = "paused"] ELSE campaign[c]]
        /\ IF k = None
           THEN release' = [release EXCEPT ![r] = "blocked"] /\ UNCHANGED artifact
           ELSE artifact' = [artifact EXCEPT ![r][k].status = "quarantined"] /\ UNCHANGED release
        /\ Finish(o)
        /\ UNCHANGED <<fleet, outcomes>>
------------------------------------------------------------------------------
(* Campaigns.                                                               *)

(* create_campaign until its INSERT: the release is read without a lock. *)
ReadTarget(o, c, r) ==
    /\ pc[o] = "idle"
    /\ release[r] \notin {"absent", "blocked"}
    /\ job' = [job EXCEPT ![o] = [NoJob EXCEPT !.release = r, !.campaign = c]]
    /\ GoTo(o, "create")
    /\ UNCHANGED <<catalog, campaign, fleet, outcomes, locks>>

(* A campaign that is known already is only read. *)
InsertCampaign(o, suits, started) ==
    LET c == job[o].campaign
    IN  /\ pc[o] = "create"
        /\ relLock[job[o].release] = None
        /\ campaign' = IF campaign[c].status # "absent" THEN campaign
                       ELSE [campaign EXCEPT ![c] =
                                [status |-> "draft", release |-> job[o].release, rollout |-> 0,
                                 suits |-> suits, started |-> started]]
        /\ Finish(o)
        /\ UNCHANGED <<catalog, fleet, outcomes>>

(* starts_at passes. *)
Start(c) ==
    /\ campaign[c].status # "absent"
    /\ ~campaign[c].started
    /\ campaign' = [campaign EXCEPT ![c].started = TRUE]
    /\ UNCHANGED <<catalog, fleet, outcomes, locks, pc, job>>

(* campaign_status_mutation to active until its UPDATE: the campaign is     *)
(* locked, its release only read.                                           *)
ResumeCampaign(o, c) ==
    /\ pc[o] = "idle"
    /\ campLock[c] = None
    /\ campaign[c].status \in {"draft", "paused"}
    /\ release[campaign[c].release] = "published"
    /\ campLock' = [campLock EXCEPT ![c] = o]
    /\ job' = [job EXCEPT ![o] = [NoJob EXCEPT !.campaign = c]]
    /\ GoTo(o, "resume")
    /\ UNCHANGED <<catalog, campaign, fleet, outcomes, relLock>>

CommitResume(o) ==
    /\ pc[o] = "resume"
    /\ campaign' = [campaign EXCEPT ![job[o].campaign].status = "active"]
    /\ Finish(o)
    /\ UNCHANGED <<catalog, fleet, outcomes>>

(* pause_campaign and revoke_campaign; a revoked campaign cannot transition *)
SetCampaignStatus(c, to) ==
    /\ campLock[c] = None
    /\ campaign[c].status \notin {"absent", "revoked", to}
    /\ campaign' = [campaign EXCEPT ![c].status = to]
    /\ UNCHANGED <<catalog, fleet, outcomes, locks, pc, job>>

(* clean_rollout_percentage *)
AnyRollout(v) == TRUE                                           \* mutant
CleanRollout(v) == v \in 0 .. 100

SetCampaignRollout(c, v) ==
    /\ CleanRollout(v)
    /\ campLock[c] = None
    /\ campaign[c].status \notin {"absent", "revoked"}
    /\ campaign' = [campaign EXCEPT ![c].rollout = v]
    /\ UNCHANGED <<catalog, fleet, outcomes, locks, pc, job>>

AddFleetHold(c) ==
    /\ campaign[c].status # "absent"
    /\ campLock[c] = None
    /\ held' = held \cup {c}
    /\ UNCHANGED <<catalog, campaign, running, outcomes, locks, pc, job>>

RemoveFleetHold(c) ==
    /\ c \in held
    /\ held' = held \ {c}
    /\ UNCHANGED <<catalog, campaign, running, outcomes, locks, pc, job>>
------------------------------------------------------------------------------
(* Installations.                                                           *)

(* An installation is deactivated or registered again. *)
Toggle(i) ==
    /\ running' = IF i \in running THEN running \ {i} ELSE running \cup {i}
    /\ UNCHANGED <<catalog, campaign, held, outcomes, locks, pc, job>>

(* rollout_allows *)
RolloutAllows(bucket, percent) ==
    \/ percent >= 100
    \/ percent > 0 /\ bucket < percent * 100

Served(r) == TRUE                                               \* mutant
Published(r) == release[r] = "published"

(* CANDIDATE_ROWS_SQL and the rollout gate. *)
Candidate(i, c) ==
    /\ i \in running
    /\ campaign[c].status = "active" /\ campaign[c].started /\ campaign[c].suits
    /\ Published(campaign[c].release)
    /\ artifact[campaign[c].release][Updater].status = "validated"
    /\ c \notin held
    /\ RolloutAllows(Bucket[c, i], campaign[c].rollout)

(* A lookup that finds nothing leaves nothing. *)
Lookup(l, i, c) ==
    /\ pc[l] = "idle"
    /\ Candidate(i, c)
    /\ job' = [job EXCEPT ![l] = [NoJob EXCEPT !.installation = i, !.campaign = c]]
    /\ GoTo(l, "offer")
    /\ UNCHANGED <<catalog, campaign, fleet, outcomes, locks>>

(* issue_update_ticket: a new hour, for a new ticket or the old one. *)
IssueTicket(l) ==
    /\ pc[l] = "offer"
    /\ Unlocked(job[l].campaign)
    /\ ticket' = ticket \cup {<<job[l].installation, job[l].campaign>>}
    /\ Finish(l)
    /\ UNCHANGED <<catalog, campaign, fleet, event>>

Expire(i, c) ==
    /\ <<i, c>> \in ticket
    /\ ticket' = ticket \ {<<i, c>>}
    /\ UNCHANGED <<catalog, campaign, fleet, event, locks, pc, job>>

(* record_update_event; an event id that is known already is not recorded. *)
RecordEvent(i, c, e) ==
    /\ <<i, c>> \in ticket
    /\ Unlocked(c)
    /\ event[e] = None
    /\ event' = [event EXCEPT ![e] = <<i, c>>]
    /\ UNCHANGED <<catalog, campaign, fleet, ticket, locks, pc, job>>
------------------------------------------------------------------------------
Init ==
    /\ release = [r \in Releases |-> "absent"]
    /\ artifact = [r \in Releases |-> [k \in Kinds |-> [status |-> "absent", content |-> None]]]
    /\ campaign = [c \in Campaigns |-> [status |-> "absent", release |-> None, rollout |-> 0,
                                        suits |-> FALSE, started |-> FALSE]]
    /\ held = {} /\ running = Installations
    /\ ticket = {} /\ event = [e \in Events |-> None]
    /\ relLock = [r \in Releases |-> None] /\ campLock = [c \in Campaigns |-> None]
    /\ pc = [p \in Procs |-> "idle"] /\ job = [p \in Procs |-> NoJob]

(* admin_release_create *)
ReleaseIntake == \E r \in Releases : CreateRelease(r)

(* admin_release_artifact_register, _validate, _publish and _block *)
ReleaseRequest(o) ==
    \/ \E r \in Releases : LockRelease(o, r)
    \/ \E k \in Kinds, x \in Contents : RegisterArtifact(o, k, x)
    \/ ValidateRelease(o) \/ PublishRelease(o) \/ BlockRelease(o)

(* admin_release_artifact_quarantine, and the UPDATE it has in common with  *)
(* admin_release_block *)
QuarantineRequest(o) ==
    \/ \E r \in Releases, k \in Kinds : QuarantineArtifact(o, r, k)
    \/ \E c \in Campaigns : PauseNext(o, c)
    \/ CommitPause(o)

(* admin_update_campaign_create *)
CampaignRequest(o) ==
    \/ \E c \in Campaigns, r \in Releases : ReadTarget(o, c, r)
    \/ \E suits, started \in BOOLEAN : InsertCampaign(o, suits, started)

(* admin_update_campaign_resume *)
ResumeRequest(o) ==
    \/ \E c \in Campaigns : ResumeCampaign(o, c)
    \/ CommitResume(o)

(* admin_update_campaign_pause, _revoke and _rollout *)
CampaignMutation ==
    \/ \E c \in Campaigns, to \in {"paused", "revoked"} : SetCampaignStatus(c, to)
    \/ \E c \in Campaigns, v \in Percents : SetCampaignRollout(c, v)

(* admin_update_campaign_hold_add and _remove *)
HoldMutation == \E c \in Campaigns : AddFleetHold(c) \/ RemoveFleetHold(c)

(* authorforge_update_check *)
UpdateCheck(l) ==
    \/ \E i \in Installations, c \in Campaigns : Lookup(l, i, c)
    \/ IssueTicket(l)

(* installation_update_event *)
Outcome == \E i \in Installations, c \in Campaigns, e \in Events : RecordEvent(i, c, e)

Environment ==
    \/ \E c \in Campaigns : Start(c)
    \/ \E i \in Installations : Toggle(i)
    \/ \E i \in Installations, c \in Campaigns : Expire(i, c)

OperatorStep(o) ==
    ReleaseRequest(o) \/ QuarantineRequest(o) \/ CampaignRequest(o) \/ ResumeRequest(o)

Next ==
    \/ \E o \in Operators : OperatorStep(o)
    \/ \E l \in Lookups : UpdateCheck(l)
    \/ \E p \in Procs : Abort(p)
    \/ ReleaseIntake \/ CampaignMutation \/ HoldMutation
    \/ Outcome
    \/ Environment

Spec == Init /\ [][Next]_vars

(* A transaction or a lookup that has begun goes on or is rolled back, and  *)
(* tickets expire.                                                          *)
Fairness ==
    /\ \A o \in Operators : WF_vars(pc[o] # "idle" /\ (OperatorStep(o) \/ Abort(o)))
    /\ \A l \in Lookups : WF_vars(IssueTicket(l) \/ Abort(l))
    /\ \A i \in Installations, c \in Campaigns : WF_vars(Expire(i, c))

FairSpec == Spec /\ Fairness
------------------------------------------------------------------------------
(* Properties.                                                              *)

(* Only published releases are rolled out: a campaign that is active has a  *)
(* release that is, or has been, published ("only campaigns targeting       *)
(* published releases can resume", admin.rs).  It may have been blocked     *)
(* since, even after the campaign was resumed, because resume_campaign      *)
(* does not lock the release.                                               *)
ActiveWasPublished ==
    \A c \in Campaigns : campaign[c].status = "active" =>
        release[campaign[c].release] \in {"published", "blocked"}

(* "published, blocked, or retired releases are immutable": once a release  *)
(* is published or blocked it gets no further artifact, and an artifact's   *)
(* content never changes nor does one come back from quarantine, however    *)
(* registrations, publications and quarantines of operators overlap.        *)
ArtifactsImmutable ==
    [][\A r \in Releases, k \in Kinds :
          /\ release[r] \in {"published", "blocked"} /\ artifact[r][k].status = "absent" =>
                 artifact'[r][k].status = "absent"
          /\ artifact[r][k].status # "absent" =>
                 artifact'[r][k].content = artifact[r][k].content
          /\ artifact[r][k].status = "quarantined" => artifact'[r][k].status = "quarantined"]_vars

(* "revoked campaigns cannot transition", not even to paused when their     *)
(* release is blocked or an artifact of it quarantined at the same moment;  *)
(* and a blocked release stays blocked.                                     *)
WithdrawnIsFinal ==
    [][/\ \A c \in Campaigns : campaign[c].status = "revoked" => campaign'[c].status = "revoked"
       /\ \A r \in Releases : release[r] = "blocked" => release'[r] = "blocked"]_vars

(* After a campaign is revoked or its release blocked, its tickets run out  *)
(* and no lookup brings new ones, although the campaign may be active and   *)
(* lookups that began before still issue theirs.                            *)
Withdrawn(c) ==
    \/ campaign[c].status = "revoked"
    \/ campaign[c].status # "absent" /\ release[campaign[c].release] = "blocked"

WithdrawnRunsDry ==
    \A c \in Campaigns : Withdrawn(c) ~> [](\A i \in Installations : <<i, c>> \notin ticket)
==============================================================================
