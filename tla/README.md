# A TLA+ model of ForgeCustomer

ForgeCustomer (`api/`, Rust, axum and sqlx on Postgres) is the customer platform
of a product family: accounts, Stripe subscriptions, licenses and devices,
entitlements and offline leases, metered usage, software releases and updates,
account deletion, and an outbox that reports to DataForge. All its durable
state is in Postgres at READ COMMITTED; several requests, two background workers
and possibly several instances of the service work on it at once, so what can
go wrong is mostly a matter of which statement of which transaction comes first.

These modules model the service **statement by statement**. A transaction is a
process with a program counter; a statement that may wait for a lock is a step
of its own, locks are variables, and every transaction may be rolled back at any
point (an error, a disconnect, a restart, a deadlock victim). Statements that
cannot wait and whose effects nobody else can see before COMMIT are merged with
the COMMIT.

## Inventory

| component | state | operations | interacts with |
|---|---|---|---|
| usage metering (`repositories/usage.rs`, `domain/usage.rs`, `workers/usage.rs`) | `usage_reservations`, `usage_events`, `usage_period_totals`, `quota_decisions` | reserve, commit (direct or of a reservation), release, lazy expiry, sweep, operator adjustment | entitlements (limit), outbox, admin |
| outbox publisher (`workers/outbox.rs`, `integrations/dataforge.rs`) | `outbox_events` | enqueue (by everybody), tick: read batch, publish, record outcome | DataForge over HTTP |
| commerce (`repositories/commerce.rs`, `integrations/stripe.rs`) | `stripe_webhook_events`, `subscriptions`, `billing_accounts`, `stripe_customers`, `invoice_references` | three kinds of webhook, operator resync, checkout and portal sessions | Stripe, licensing, outbox |
| licensing (`repositories/licensing.rs`, `domain/license.rs`) | `licenses`, `installations`, `devices`, `license_activations` | register, activate, heartbeat, deactivate, sync with the subscription | commerce, admin, entitlements |
| entitlements and leases (`repositories/entitlements.rs`, `domain/entitlement.rs`, `domain/lease.rs`) | `entitlement_overrides` (read), `license_leases`, `license_revocations` | evaluate, issue a snapshot, issue a lease | nearly every table |
| privacy (`repositories/privacy.rs`, `domain/deletion.rs`) | `account_deletion_requests`, `customer_profiles` | request, cancel, advance, reject, execute | commerce, licensing, admin |
| admin (`repositories/admin.rs`) | releases, artifacts, campaigns, holds, overrides, customer status | publish, block, campaigns, holds, quarantine, revoke, suspend, restore | all |
| updates (`repositories/updates.rs`, `domain/updates.rs`) | update tickets and events | pick a candidate release, issue a ticket, record an outcome | admin |
| customers, auth, MFA (`repositories/customers.rs`, `auth/`) | `customer_profiles`, cached signing keys | provision at first sight, verify a token | every route |
| rate limiter (`middleware/rate_limit.rs`) | counters in memory, behind a mutex | check | every route |
| catalog, commercial policy, checkout, signing, redaction, configuration | seeded tables or none | reads and pure functions | - |

What is hard in them, and what makes each correct:

* **usage**: two lock orders, a check before the lock, retries that overlap
  their original, four operations that may each end a hold. Correct: totals are
  the sums of the rows they summarise, the limit is never exceeded by an allowed
  call, a reservation is charged once, an overdue hold is freed.
* **outbox**: no claim on a row, at-least-once publication, restarts between
  publication and record. Correct: delivered means arrived, dead-lettered means
  exhausted, every event settles.
* **commerce and licensing**: webhooks in any order, repeated and concurrent,
  against operators who resync and revoke. Correct: an event takes effect once,
  the newest wins, a license follows its subscription, one license per
  subscription, a revocation is final.
* **activations and leases**: rows read without a lock and acted upon after another
  transaction has changed them. Correct: device limits hold, nothing is granted on a
  license out of good standing, what an erasure ended stays ended.
* **releases and campaigns**: two kinds of rows with locks of their own, and
  statements that read the one without its lock before they change the other; lookups and
  tickets are two statements apart. Correct: only published releases are rolled out, a
  published release does not change, a withdrawal is final and its tickets run out.
* **accounts and deletion**: customers and operators work on the same request, and an
  erasure overlaps with status changes. Correct: requests keep to the documented
  workflow, nothing is erased before the cooling-off time, the history has no gap.
* **entitlements**: the answer is computed from five reads outside a transaction.
  Correct: the documented precedence of layers (but for the gate of the subscription, see Findings), and no answer that was true at no moment.
* **signing keys**: one mutex held across a network call that can be dropped at any
  moment, and a cooldown shared by all tokens. Correct: a withdrawn key is trusted for a
  bounded time, a published one is learned in the end.

The hazards, each at its line, are in `PROJECT.json`.

## Modules

| module | what it is |
|---|---|
| `QuotaLedger` | the promise of usage metering: holds and charges against a limit, each one atomic |
| `UsageLedger` | usage metering as transactions; implements `QuotaLedger` |
| `UsageLedgerProofs` | proofs about `UsageLedger` |
| `Outbox`, `OutboxProofs` | the publisher with several instances, and its proofs |
| `Subscriptions`, `SubscriptionsProofs` | webhooks, resyncs and the license of one subscription, and the proofs |
| `Licensing`, `LicensingProofs` | devices, installations, activations and leases of one customer, operators, the erasure of the account, and the proofs |
| `Fleet`, `FleetProofs` | releases, artifacts, campaigns, holds, update lookups and tickets, and the proofs |
| `Account`, `AccountProofs` | provisioning, status, second factor and deletion requests of one customer, and the proofs |
| `Entitlements`, `EntitlementsProofs` | the evaluator with its layers, the reads that feed it, overrides and policy versions, and the proofs |
| `SigningKeys`, `SigningKeysProofs` | the cache of the identity provider's keys, and the proofs |
| `MCUsageLedger`, `MCOutbox`, `MCSubscriptions`, `MCLicensing`, `MCFleet`, `MCAccount`, `MCEntitlements`, `MCSigningKeys` | constants and symmetry for TLC |

The modules meet in the rows they share. Each has the others' changes to such a row as
steps of its environment, as wide as the other module makes them: the license of a
subscription (`Subscriptions`; `SyncLicense` in `Licensing`, `Webhook` in `Entitlements`),
the customer's status (`Account`; `SetCustomerStatus` in `Licensing` and `Entitlements`),
whether a subscription is open (`Subscriptions`; `Webhook` in `Account`), the limit of a
call (`Entitlements`; the choice at `Begin...` in `UsageLedger`), installations
(`Licensing`; `Toggle` in `Fleet`), the erasure (`Account` has the request and the
profile, `Licensing` the licenses and devices).

A definition with the comment `mutant` is a plausible mistake in the definition
that follows it; it is used to see that a property would notice.

### UsageLedger

`reservations`, `usage_events` and `totals` are the tables, keyed by the
idempotency keys of one customer and the (meter, period) buckets. A client's
call is `Begin...` (with the unlocked reads before its first lock), then
`LockTotals`, `LockStale`, `Decide` and one of the outcomes for a reserve or a
direct charge, or `LockRow`, `InsertEvent`, `Fold...` for a commit, release or
adjustment; the sweeper is `SweepStart`, `SweepTotals`, `SweepCommit` and skips
locked rows. The limit a call is decided against is chosen when the call begins,
since the route computes it before the transaction.

Abstractions: a totals row always exists (absent is (0, 0)); one clock, read at
the start of a transaction (`now()`) or where the service reads it;
`quota_decisions` and the outbox are sets of what was recorded; amounts are
small naturals. The operator's negative adjustment is bounded by nothing, neither in the
code (admin.rs:748-799) nor in the schema, so `used` may become negative.

### Outbox

A row is its status, attempts, creation time and whether it is due
(`next_attempt_at` as a flag: any time may pass). A worker reads up to `Batch`
due rows, oldest first, publishes them one by one and records each outcome by
id. DataForge is the set of delivery keys it has accepted; its answer may be
lost. A payload that the redaction check refuses (`Prohibited`) always fails. A
restart loses a worker's batch.

### Subscriptions

One subscription of one customer. `stripe` and `event` are Stripe's side:
Stripe changes the subscription, emits events with the time in whole seconds, and
delivers any event at any time until its receipt is committed (`Deliverable`).
A handler reads the row (`Receive`, or `Skip` if it stops there), takes the
billing account, writes the row, takes the license, commits. An operator fetches
the truth outside a transaction (`Fetch`), locks the row, the billing account,
the license, commits. `Revoke` is one step: it waits only for the license.

Abstractions: billing periods, the cancellation flag, audit rows and
`checkout_sessions` are left out, so "before and after differ" compares status and
plan; the lock on an invoice's row and the key-share locks of foreign keys are
left out, which allows more interleavings; every price belongs to a known plan;
a license's device limit is named by the plan it was read from; `applied` and
`issued` count up to 2, which is enough to see a second time.

### Licensing

One customer and one product. A request is admitted on the customer's status
(`Admit`, the extractor's `require_active`) and may run much later. Registration
and deactivation wait once and are one step each; an activation reads the
installation (`ReadInstallation`), locks and checks the license (`LockLicense`),
and inserts (`InsertActivation`); a lease is a read and an insert
(`ReadLeaseContext`, `InsertLease`). `execute_deletion` locks the profile
(`LockProfile`), the licenses row by row (`LockNext`), and commits (`Erase`). Every
audit row refers to the profile, and Postgres takes a key-share lock for that, so
whoever writes one waits while an erasure has the profile (`ProfileFree`); that is
why an activation and an erasure can deadlock, and why a lease can be written
after an erasure it has waited for. `SyncLicense` is what `Subscriptions` does to
the license of a subscription, as its environment: any change
`license_sync_action` allows.

Abstractions: the device limit of a subscription's license is not kept; what a
request finds (the policy or plan in force) may be any limit. A request without a
license id takes the newest license in force, one of those a request may name.
Revocation records of single devices and installations are left out since nothing
writes them, and that of a license is always written with its status. Only the
last lease is kept. Whether a subscription is still open, which refuses an
erasure, is not known here: an erasure may begin at any time. Heartbeats, versions,
labels and fleets are left out.

### Fleet

A request that changes a release locks its row (`LockRelease`) and ends with one of
`RegisterArtifact`, `ValidateRelease`, `PublishRelease` or `BlockRelease`; blocking and
quarantining then pause campaigns row by row (`PauseNext`) and commit (`CommitPause`):
the UPDATE lists the active campaigns when it begins, waits for each that is locked, and
looks at it again. `ResumeCampaign` locks the campaign and reads the release,
`CommitResume` activates it; `ReadTarget` and `InsertCampaign` are a creation. Pausing,
revoking, rollout and holds lock only the campaign and are one step. `Lookup` is the
SELECT of an update check, `IssueTicket` the insert that follows, `RecordEvent` an outcome.

Abstractions: one fleet of one product; whether a campaign's channel and ring suit the
fleet is a bit chosen at its creation; version gates depend on what the client reports, so
a lookup may find any candidate that passes the rest; a ticket is its installation and
campaign, and lives until `Expire`. Nothing in the code retires a release or completes a
campaign, so these statuses are left out. `Unlocked` makes an insert wait a little longer than
Postgres would while a pausing UPDATE has the campaign. `event` records the outcomes of tickets
for completeness; no property reads it.

### Account

`Create` and `AddEmail` are `provision_for_auth_user` for a new and a known customer. A
request is admitted on the profile as the extractor read it (`Admit`) and runs later.
`FindOpen` is the SELECT of the open request, `PassOver` a row that is no longer open when
its lock comes free, then `ReturnOpen`, `InsertRequest` or `LockCanceled`. Operators lock a
request by id (`LockRequest`) and advance, reject or execute it; `BeginErasure` locks the
profile and counts subscriptions, `Erase` is the rest and COMMIT. Time is two flags: a
cooling-off window and the grace of the second factor.

Abstractions: the profile is its status and its second factor; all direct personal data is
one bit (`email`); a customer's and an operator's demand for a second factor are not told
apart. `Webhook` waits for the profile although only an insert does, not an update of a
subscription; no property depends on it. The order of the history is the order of its COMMITs:
`created_at` is the time its transaction began and may sort otherwise.

### Entitlements

A request reads policy, subscription, grants, effective license and overrides in five steps
and then answers; `Evaluate` puts its layers one over the other (`Upon`, `Applied`) as `evaluate`
does. An override is set in four steps: the
transaction begins (`BeginOverride`, whose time the new row has), the UPDATE sees the active rows
(`SeeOverrides`), waits for them and looks at them again (`ClearOverrides`), and the new row is
inserted and committed (`CommitOverride`); nothing locks what is not there yet. A publication holds the
product's row and so is one step, except that its time is `now()` of its beginning.
`seen` and `held` are history variables: the facts that were true at some moment, and at
every moment, of a request. They are stated on the rows without the code's queries.

Abstractions: a gated, a numeric and a catalog feature and one quota; one plan is sold;
usage, periods and signatures are left out. `license_grants` and `entitlement_grants` are
written by no code and are constants. `MaxChanges` bounds how many changes are begun.

### SigningKeys

`validate` takes the mutex and verifies, refuses (the last attempt was less than
REFRESH_INTERVAL ago) or fetches; `fetch` is a step of the provider (`Serve`) and one of the
task. `Drop` is a request whose future is dropped, at the mutex or in the middle of a fetch.
Times are ages in ticks that stop counting where nothing depends on them any more. The type
invariant is proved (`TypeCorrect`); the run checks `SingleFlight` in its place: whoever fetches
has the mutex, so there is one fetch at a time however many requests are dropped.

## Runs

| run | shows | bounds |
|---|---|---|
| `usage_safety` | totals equal their rows, the quota holds, a committed reservation is charged once, thresholds are reported; `UsageLedger` implements `QuotaLedger`, so terminal rows and events never change | 2 reservations, 2 event keys, 2 clients, a sweeper, amounts of 1 against a limit of 2, refunds (`PromiseKept` is for any amounts, limits that change and adjustments both ways) |
| `usage_live` | every call is answered or rolled back; every overdue hold is reclaimed | a client, 2 sweepers with batches of one, two periods |
| `outbox_publishing` | delivered has arrived, dead-lettered is exhausted, every event settles | 2 events, one always refused, 2 workers, 3 attempts |
| `subs_serial` | newest event wins, license follows, DataForge is told, one handler at a time | 3 events, 4 statuses, 2 plans, 1 invoice |
| `subs_concurrent` | one license, applied once, revoked stays, every event is processed | 2 events, 2 handlers, an operator, 3 statuses, 2 ticks to a second (the proofs are for any number) |
| `lic_activations` | no license is oversubscribed, no grant on a license that is not in good standing, erased licenses stay revoked and released | 2 clients, an erasure, 2 installations, a device, an issued and a subscription's license, limits 0 and 1 |
| `fleet_safety` | active campaigns have published releases, artifacts are immutable, withdrawals are final and their tickets run out | 2 operators, a lookup, a release, a campaign, an artifact with 2 contents, an installation in the middle of the rollout |
| `account_safety` | requests keep to the workflow, an account is erased only by a request past its cooling-off time, the history has no gap | 2 requests of the customer, 2 operators, 2 deletion requests, 3 status changes |
| `ent_answers` | precedence of the layers but for the gates; cloud is granted only to one who paid and stood unrevoked during the request, and not denied to one who did all the time | a request, 2 operators, 2 subscriptions, an issued license, 2 overrides, 2 publications, 3 changes |
| `keys_cache` | one fetch at a time; withdrawn keys are trusted for a bounded time; published keys are learned in the end | 2 requests, 2 keys, CACHE_TTL of 3 ticks, REFRESH_INTERVAL of 2, a timeout of 1 |
| `subs_staler`, `ent_latest` | findings | 3 events, 2 handlers, 2 statuses; the rows of `ent_answers` |

Why the bounds are enough: every hazard listed is a conflict of two
transactions over one row, and some need a third (a sweeper or an operator) to
change the row between them; two clients or handlers and one of the third kind
give all of these. Two reservations against a limit that one of them can fill
give denial, expiry and re-use; three events give a subscription, a change and
an invoice in every order; two ticks to a second make an event older than the
row it meets although it is later. `MaxClock` lets every deadline pass. Two
installations against a limit of one compete for the last slot, and the limit of
the subscription's license rises and falls. Two operators are one who has read and one who
changes; two deletion requests are what two first requests at once leave behind; three status
changes are a creation, one by an operator and an erasure. Three changes in the middle of a
request are enough for a subscription to end and begin again and for a license to be revoked;
two publications for a version that takes effect later. A fetch of one tick, a cooldown of two and a lifetime of
three are in the code's order (5 s, 60 s and 10 min), which is what `TrustBounded` and
`CacheFollows` depend on; the proofs of `SigningKeys` need no order.

Deadlock (a state without a step) is checked in every run but those of the outbox and the
subscriptions: there the system rests when every event has been
dealt with and the clock has reached its bound.

### Fairness

* Usage: the steps of a transaction are strongly fair, since Postgres hands a
  lock to those who wait for it and a lock is released again and again; a
  deadlock's victim is chosen (weakly fair); disconnects are not forever. The
  sweeper runs at an interval, so its start is fair. Clients need not call at all.
  `OverdueReclaimed` is checked with one client: several that retry for ever may
  be each other's and the sweeper's deadlock partner for ever.
* Outbox: a worker's tick and its steps are weakly fair and restarts are not
  forever; nothing is assumed of DataForge.
* Subscriptions: Stripe delivers again until it gets a success (strongly fair per
  event); transactions as above; operators resync finitely often, else their
  deadlocks with a handler may always end with the handler as victim.

* Fleet: a transaction or lookup that has begun goes on or is rolled back, and tickets expire.
  That operators make requests, or installations look for updates, is not assumed.
* SigningKeys: clients keep calling, requests that wait for the mutex get it in the end, time
  passes, the provider answers again and again, and not every fetch fails. Dropped requests
  may go on for ever.

## Findings

**An older webhook can win** (`subs_staler`): the row is checked without a lock, so of two
handlers that have both read it the one that commits last wins, although docs/STRIPE.md:112-113
says "never regress to a staler state". With one handler it does not happen
(`NeverStalerSerially`).

**A revoked latest license need not deny** (`ent_latest`): docs/ENTITLEMENTS.md:34 and
doc/system/05-domain-subsystems.md:137-138 say "a revoked latest license forces cloud features
off", but the query on licenses (repositories/entitlements.rs:342-350) puts an active license
before one issued later. The comment above it (338-341) says why: "A revoked secondary license
must not deny a customer who still holds an active grant". `RevokedLatestDenies` states the
documents and is refuted; `CloudOfItsTime` follows the comment.

The following are stated in the modules as properties. Each is refuted by TLC when it is
added to the cfg of the run that is named.

| statement | added to | what happens instead |
|---|---|---|
| `ReplayNotDenied`: "Replays return the original row" (docs/USAGE.md:35-36) | `usage_safety` | a retry that overlaps its original passes the unlocked check, waits, and is decided against the quota its original used up |
| `FinalIsFinal`: "Each tick claims a batch" (workers/outbox.rs:22-23) | `outbox_publishing` | nothing claims a row; with two instances a delivered row can become pending or dead-lettered; with one it cannot (`FinalWithOneInstance`) |
| `LicenseFollows`: "Keep the license linked to a subscription consistent" (licensing.rs:788) | `subs_serial`, where it holds, with a second handler | an invoice event judges what changed against a row read before it waited, and an active subscription keeps an expired license |
| `SlotsFreed`: "deactivates the installation and releases its active activations" (docs/API.md:202-204) | `lic_activations` | an activation that read its installation before the deactivation is inserted afterwards, and deactivating again does nothing |
| `OneOpenRequest`: "One non-terminal request exists at a time" (privacy.rs:55-56) | `account_safety` | the SELECT FOR UPDATE locks nothing when there is no request: two first requests both insert |
| `EnforcedAtOnce`: a demanded second factor is enforced at once (auth/mod.rs:184-187) | `account_safety` | the grace of a new account is not ended by the demand |
| `GateKeepsItsPlace`: the subscription gate is below grants and overrides, and "Later stages win over earlier ones, except suspension/revocation always denies" (docs/ENTITLEMENTS.md:9-22, doc/system/05-domain-subsystems.md:116-125, the head of domain/entitlement.rs:3-7) | `ent_answers` | `evaluate` applies the gate after all layers (entitlement.rs:91-98): a customer who has not paid and has an override `cloud = TRUE` gets `FALSE`. `Precedence` therefore says nothing of gated features without a subscription |
| `OneWinner`: "evaluation sees exactly one winner" (admin.rs:606-607) | `ent_answers` | two operators clear and insert an override of one key at once and both rows stay active; the newer one wins; with one operator there is one (`OneWinnerOfOneOperator`) |
| `OnePerBase`: "prevents two operators from both successfully publishing against the same active version" (commercial_policy.rs:196-197) | `ent_answers` | a version that takes effect later is not the active one, so another may be published on the same base, and later displaces it |

More are visible in the modules: an erased customer's token that is still valid brings the
e-mail back (`AddEmail`); a webhook can open a subscription while the customer is being erased
(`BeginErasure`, `Webhook`); cloud can be granted although payment and good standing never held
at one moment, since they are read one after the other (`CloudOfItsTime` says no more than that
each held at some moment); a campaign can be active on a blocked release, which no lookup offers
(`ResumeCampaign`); a newly published key is refused for up to REFRESH_INTERVAL after an attempt
(`Refuse`); quotas are not gated by payment or revocation (`Evaluate`); a cancellation created before a payment that has been
processed is skipped as stale, since invoice events advance the same time
(`CommitInvoice`, `Stale`); a resync stamps what it fetched with a later time and so
hides a change in between (`Fetch`, `LockBilling`); a lease is written for a license
revoked after it was read (`InsertLease`); an erased customer can be restored
(`SetCustomerStatus`) and be issued a license; usage has two lock orders (totals then reservation, and
reservation then totals), which Postgres resolves by failing a call; an invoice is
recorded before the staleness check, so a paid one can become open again (`Skip`);
and a plan switched at Stripe never arrives, because the metadata of the checkout
and then the existing row are preferred to the price (`PlanOf`).

## Proofs

Each holds for every value of the constants that satisfies the named assumption
of the module (disjoint sets of processes, natural bounds, `None` in none of the
sets).

* `UsageLedgerProofs!TypeCorrect`, `ChargedExactlyOnce`. The charge is written in
  the last step, after waits, on the strength of what earlier statements saw, so
  the invariant says what a process at each statement holds: the lock of the
  reservation it will end, which is therefore still pending (`RowsLocked`), and the
  uncommitted key of the event it will write, which is therefore still unused
  (`KeysLocked`). With it each end of a hold and each new event is the first.
* `UsageLedgerProofs!HoldsCounted`, `EventsCounted`, `QuotaHolds`, `ThresholdsReported`: the
  totals are the sums of their rows, and so the limit holds. A sum over a set is a fold, about
  which nothing can be proved by induction here; it is therefore counted as the number of pairs
  (row, unit) with the unit up to the row's amount (`Units`, `SumsAreUnits`), and a statement
  that changes one row changes that number by the row's amount (`HeldSettled`, `HeldTaken`,
  `ChargedMore`). The quota needs one thing more: between the decision and COMMIT the process
  has the totals row and every stale reservation, so what it was decided on is still what the
  tables say (`DecisionStands`). `LedgerInv` is all this together.
* `UsageLedgerProofs!PromiseKept`: `UsageLedger` implements `QuotaLedger`. Every COMMIT that
  changes a reservation or adds an event is one step of the promise, which takes, charges,
  releases or lapses the holds its rows say, and every other step is a stutter (`PromiseStep`,
  one case per action, from `LedgerInv`). The run shows it for one limit and refunds; the theorem
  covers limits that change, larger amounts and adjustments upwards too.
* `OutboxProofs!TypeCorrect`, `OutboxCorrect`, `DeadLettersExhausted`: delivered has arrived and
  dead-lettered is exhausted, although attempts may be set back by a slow worker: what every
  worker carries was once in the row and is below the limit, and an
  acknowledgement in hand means the event is in DataForge (`Covered`, `Answers`).
  `FinalWithOneInstance` delimits a finding: under `OneInstance` (no two workers) whatever the
  worker has in hand is still pending (`StillPending`), so a final outcome stays, restarts and
  lost answers included.
* `SubscriptionsProofs!TypeCorrect`, `EventsAppliedOnce`, `SingleLicense`,
  `RevocationStands`. `IInv` says: an event in a handler's hands is in nobody
  else's and has no receipt (`Receipt`); whoever is about to sync the license has
  the subscription's row (`RowHeld`); a license it did not find is therefore still
  absent (`LicenseRead`), and one it found is locked and unchanged
  (`LicenseHeld`); so a row is inserted when none has been (`Issued`), and what
  is written over a revoked license is that license.
* `SubscriptionsProofs!LicenseFollowsSerially`, `NewestWinsSerially`, `ReportedSerially`,
  `NeverStalerSerially` assume `Serial`: deliveries do not overlap and no operator resyncs;
  Stripe's changes, the order and repetition of events, rollbacks and revocations are as free as
  before. Then what a handler has read is still the row, and no newer than its event (`RowRead`),
  and what it writes is what the row asks for. The hypothesis is not a convenience: `subs_staler`
  and the table above show that with a second handler `NeverStaler` and `LicenseFollows` fail.
* `LicensingProofs!TypeCorrect`, `CapacityRespected`, `GrantsSound`,
  `ErasureStands`. An activation is inserted on the strength of checks made when
  the license was locked, so the invariant says that a request about to insert
  still has the lock, that the license is still in good standing, and that there
  is still a free slot (`Stands`). An erasure needs the lock of every license that
  is not revoked, so none of them is about to be granted when it commits; and
  since a revoked license never changes, none is granted after it. A license not
  yet issued has no activation (`Fresh`).

* `FleetProofs!TypeCorrect`, `ActiveArePublished`, `WithdrawalIsFinal`,
  `ArtifactsAreImmutable`. The invariant says what a transaction has checked and still relies
  on: the status of the release it has locked (`ReleaseHeld`), the artifact it will
  quarantine (`ArtifactKnown`), the campaign it has locked to resume, whose release was
  published when it was read (`CampaignHeld`), and that the campaigns it has locked to pause
  are active (`PausesActive`). Since a published release becomes nothing but blocked, what
  `CampaignHeld` says survives the lack of a lock. A step that another process takes keeps
  all this (`AsideKeeps`), so each action is left with its own rows.
* `SigningKeysProofs!TypeCorrect`, `FetchesOneAtATime`, `TrustIsBounded`. Whoever fetches has the
  mutex; an answer is no older than the fetch, the cache no older than its answer
  (`AnswerRecent`, `CacheRecent`), so a key that is accepted was published at most CACHE_TTL
  and the time of a fetch ago.

* `AccountProofs!TypeCorrect`, `OnlyRequestsErase`, `HistoryUnbroken`, `RequestsFollowWorkflow`.
  Whoever has passed the lock of a deletion request still has it, and an erasure the lock of the
  profile too, so the status that was checked is the status that is changed (`Held`): every move
  of a request is one the workflow allows, an erased account has a completed request whose window
  had elapsed, and a change of status is recorded with the one before it. Nothing is under way
  before the profile exists (`Present`), so its creation begins the history.
* `EntitlementsProofs!TypeCorrect`, `AnswersTrue`, `LayersTakePrecedence`. The five reads are
  apart, so the invariant ties each to its time: a read that says yes saw something that was true
  at some moment, and what was true at every moment is read (`Witnessed`, `Watched`). That the
  newest license and its revocation mean what the facts say is `NewestFound` and `RevocationRead`;
  that a newly published version is the greatest, and its number in range, is `VersionsLeft`.
  `Precedence` is a statement about five functions put one over the other: a key has the value of
  the last that has it (`Top`, `FiveLayers`), and the gates come after (`Gates`).
* `EntitlementsProofs!OneWinnerOfOneOperator` delimits another finding: with one operator, no two
  active overrides of a key are left behind.

Every safety property, action property and refinement that a passing run checks is thus also
proved. What stays with TLC:

* the liveness properties `OverdueReclaimed`, `CallsAnswered`, `Settles`, `EventsProcessed`,
  `WithdrawnRunsDry` and `CacheFollows`: the prover does not reason about fairness;
* what `Merge` makes of any number of license grants, a fold: in the proofs it is some function,
  and precedence is proved whichever it is;
* that the statements under Findings are false, which takes an example.

## Not modelled, and the plan

1. Proofs that delimit the other findings: that `SlotsFreed`, `OneOpenRequest` and `OnePerBase`
   hold when requests of the same kind do not overlap, or what exactly they need.
2. Leases and liveness in `Licensing`: what may still be leased after a revocation, and that
   requests and erasures, which can deadlock, all end.
3. The rate limiter: its counters are in memory, behind one mutex, and only throttle. The time is
   read before the mutex is taken, so a late request of the old window can start the new one
   again.

Left out for good: cryptography and token parsing, JSON shapes and HTTP wiring,
seeded catalog reads, row-level security (access paths this service does not
use), shell scripts and deployment files.
