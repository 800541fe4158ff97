# OpenLEG: specifications, model checks and proofs

OpenLEG runs local electricity communities (LEG): households register, form a
community, exchange documents with the grid operator (VNB), receive quarter-hour
meter data, are billed for the electricity they share, and pay. The program is a
Flask application over PostgreSQL, with a cron surface that is called over HTTP,
a Redis cache, a collector that runs beside a household's devices, and a few
command line tools. Several web workers serve requests at once, so nearly all
correctness rests on what PostgreSQL transactions under READ COMMITTED lock,
check again and commit, and on what survives a request that dies between two of
them.

This directory holds TLA+ modules translated from that code, TLC configurations
that check them on small instances, and proofs checked by TLAPS for every
instance. Source paths below are relative to `src/`.

## 1. Inventory

### Components, their state and their operations

| Component | State | Operations that change it | Hard part | What makes it correct |
|---|---|---|---|---|
| Invoice lifecycle (`store/billing.py`, `billing_lifecycle.py`, `dashboard.py`) | append-only events per invoice, one delivery job per invoice, correction links | prepare / fail / complete / confirm delivery, pay, cancel, correct | a mail between two transactions, two lock orders, crashes | one mail, one payment, a trail that agrees with job and links |
| Bank reconciliation (`payment_reconciliation.py`, `store/billing.py`) | statements, entries with a decision, keyed confirmations | import a statement, confirm an entry | the same booking arrives several ways | one payment per entry and invoice, entries agree with the trail |
| Operator webhooks and API (`operator_api.py`, `store/operator_api.py`, `store/operator_operations.py`) | event outbox, a delivery per subscribed client, tokens, hourly use | enqueue, claim, POST, record, re-arm, rotate, revoke, call, read a page | stale claims, lost answers, lists that change between pages | every delivery settles, late answers change nothing, lists are read in whole |
| Billing periods (`billing_runner.py`, `vnb_calculated_values.py`, `store/calculated_values.py`, `store/billing.py`) | evidence ledger, withdrawals, drafts and issued periods, invoice numbers | deliver, withdraw, prepare, approve | evidence read long before it is used | drafts rest on current evidence, numbers without gaps, dual control at commit |
| Billing arithmetic (`billing_engine.py`, `billing_readings.py`, `billing_reconciliation.py`, `billing_approval.py`, `quartierakku.py`) | draft and lines of a period | allocate, price, round, approve, audit | floats, two places that round | engine and approval agree, the audit refuses what it cannot explain |
| Metering point register (`store/metering.py`, `scripts/import_metering_points.py`, `billing_readings.py`) | points with owner and directions, readings, membership | import a list, save a delivery, load a month | lists and deliveries between the queries of a run | a billed month leaves nobody out |
| Grid operator's files as evidence (`e66_evidence.py`, `sdat_e66.py`, `store/calculated_values.py`, `store/metering.py`) | dated statements about points, accepted files | state, list, accept, withdraw | locks of many points, bindings that change meanwhile | evidence is bound to statements that hold, no deadlock |
| Metering import (`sdat_ingestion.py`, `sdat_datahub.py`, `scripts/import_sdat.py`, `store/metering.py`) | outbox, directory, readings, ledger, advisory lock, recorded runs, retry keys | start by cron / dashboard / operator / shell, fetch, import, pack, report, answer | files, readings and ledger change in separate steps | no reading lost, one run at a time, every delivery arrives |
| Invoice questions (`store/invoice_query.py`, `invoice_queries.py`) | cases, messages, history, reminder mark, keyed answers | open, write, change, respond, remind, note a correction | overlapping reminder jobs, unlocked reads | the history leads to the status, one reminder, one reply per key |
| E-mail queue (`store/email_queue.py`, `email_automation.py`) | scheduled mails with attempts and address | schedule, send, mark, clean up | a list kept while others send, answers lost after the server took a mail, failing marks, crashes | no mail more often than there are senders, deaths, failed marks and counted failures |
| Registration, interest, access links (`registration.py`, `interest_intake.py`, `store/building.py`, `store/token.py`, `store/access_token.py`, `store/interest.py`) | profiles with a revision, links, sessions, coverage requests | register, confirm, sign in, delete, clean up | a profile entered again while its link is under way | who is verified read the mail |
| Community roles (`store/formation.py`, `community_access.py`) | members with roles, role events, dual control | invite, confirm, change roles, leave | two administrators demote each other | somebody stays in charge, the trail is true |
| Formation of a LEG (`formation_wizard.py`, `store/formation*.py`, `vnb_exchange.py`) | members, bundles, receipts, submission cases, start date | invite, generate, review, sign, submit, respond, activate | facts change while signatures are collected | only receipts of the exact bundle count, one bundle is submitted |
| VNB exchange (`vnb_exchange.py`, `store/vnb_exchange.py`) | mutation cases and their ledger | submit, claim, deliver, record, respond | lost and repeated requests | the operator was told what is on record |
| Contact requests (`store/contact_request.py`) | grants between households | ask, accept, decline, revoke, view | consent changes and changes back | a grant ends with what it was given under |
| Community archive (`community_archive.py`) | rows with serial ids, sequences, the archive | write, export, damage, restore | restore beside writers | all or nothing, ids stay unique |
| Telemetry delivery (`telemetry_collector.py`, `store/telemetry.py`) | spool, numbers, credential, samples | enqueue, post, ingest, rotate, clean up | lost, late and repeated posts, a new disk | each sample counts once, in order |
| Telemetry notices (`store/telemetry_notices.py`) | notices with episodes, a mark of missed projections | derive, show, acknowledge, clean up | what was shown has ended meanwhile | an acknowledgement is for what there is now |
| Solar forecast cache (`solar_forecast.py`, `solar_forecast_cache.py`) | Redis: header, points, lease, cooldown | refresh, publish, view | a lease that runs out, a release that changes under a download | pages show official values of one release |
| Advisories and equipment (`advisories.py`, `equipment.py`, `store/advisories.py`, `store/equipment.py`) | revisions, publications, policies, reviews, equipment, actions | revise, publish, review, record an action | statements of one transaction see different commits | an action is about a notice that stands |
| Utility portal (`utility_portal.py`, `store/utility.py`) | accounts, links, keys, sessions | register, sign in, approve, make keys | overlapping chains of short transactions | a link opens one session |
| Registry of LEGs (`registry_intake.py`, `leg_registry.py`, `store/registry.py`) | entries, slugs, verification links | submit, moderate, ask, confirm | two submissions under one slug, overlapping runs | addresses are unique, fresh means confirmed |
| Disposable villages (`sandbox_*.py`) | worker processes, databases, slots | start, use, reset, discard, reap, recover | threads, a kill of the gateway, a failing cleanup | a village per visitor, never more than there is room |
| Public data, neighbours, rankings, web application, presentation, schema | rows and read models | upserts | little | - |

### How they interact

```
participant lists --> Metering point register --+      statements about points
grid operator's outbox --> Metering import -----+--> gate of a month   |
grid operator's files --> evidence of a month <-------------------------+
grid operator's calculated values --> evidence ledger --> Billing periods
                                                            | engine, approval
                                                            v
   e-mail <-- Invoice lifecycle <-- bank statements (Bank reconciliation)
                    |  correction note
                    v
             Invoice questions
   every status change --> operator_events --> Operator webhooks --> clients
   Registration --> Community roles --> Formation --> VNB exchange
   Registration --> E-mail queue;   profiles --> Contact requests
   collector --> Telemetry delivery --> Telemetry notices
   Advisories x equipment --> action of a household
```

Interaction is by shared tables inside one transaction: an approval inserts the
invoices the lifecycle works on; an import of a bank statement appends to the
same audit trail as a manual payment (`BankReconciliation` therefore EXTENDS
`InvoiceLifecycle` and lets all its actions go on); a correction writes to the
cases of its invoice; every one of them enqueues webhook events in its own
transaction. Where a component reads another one's tables without a lock, the
module of the reader has an action that changes them at any moment
(`BillingPeriods.WorldStep`, `Formation.ChangeProfile`, `SourceEvidence.Enrol`,
`VnbMutations.Confirm`).

### Hazards

`PROJECT.json` lists 40 hazards at their lines, each with the properties that
would catch it. They fall into four groups: a decision that rests on rows read
before a lock (drafts, approvals, bundles, role changes, contact grants,
evidence); something outside the transaction that cannot be taken back (a mail,
a POST, a file, a process, a submission) between two transactions; an answer or
a repetition that comes late (claims, telemetry posts, forecast leases, retry
keys, statements); and a limit or a rounding (invoice numbers, queue and village
capacity, sequences, quanta of energy and money).


## 2. Modules

| Module | Models | Run (part) | Proofs |
|---|---|---|---|
| `InvoiceLifecycle` | issued invoices and the requests that drive them | `invoice_lifecycle` (invoices) | `InvoiceLifecycleProofs` |
| `EmailQueue` | scheduled mails, overlapping senders | `invoice_lifecycle` (mails) | `QueuesProofs` |
| `CommunityRoles` | invitations, roles, dual control | `invoice_lifecycle` (roles) | `MembersProofs` |
| `BankReconciliation` | statements and confirmations, composed with the whole invoice lifecycle | `community` (payments) | `InvoiceLifecycleProofs` |
| `SourceEvidence` | statements about points, files as evidence | `community` (evidence) | `EvidenceProofs` |
| `Registration` | profiles, coverage requests, links, sessions | `community` and `operators` (interest) | `MembersProofs` |
| `Formation` | members, bundles, signatures, submission, start | `community` (formation) | `MembersProofs` |
| `VnbMutations` | changes of participants as cases | `community` (mutations) | `MembersProofs` |
| `ContactRequests` | grants between neighbours | `community` (contacts) | `MembersProofs` |
| `CommunityArchive` | export and restore beside writers | `community` (archive) | `EvidenceProofs` |
| `OperatorAccess` | tokens, hourly limit, lists by page | `community` (access) | `QueuesProofs` |
| `InvoiceQueries` | cases, reminders, correction notes | `operators` (queries) | `InvoiceLifecycleProofs` |
| `OperatorWebhooks` | outbox, claims, deliveries | `operators` (webhooks) | `QueuesProofs` |
| `BillingPeriods` | evidence, runs, approvals | `billing` (evidence, approval) | `BillingPeriodsProofs` |
| `MeteringRegister` | points, readings, the gate of a month | `billing` (gate) | `BillingPeriodsProofs` |
| `BillingArithmetic` | engine, draft, approval of the lines | `billing` (money) | `BillingPeriodsProofs` |
| `SourceAudit` | the audit of rounded channels | `billing` (audit) | `SourceAuditProofs` |
| `MeteringImport` | imports of one tenant | `background` (imports), `deliveries` (files) | `BackgroundProofs` |
| `Villages` | the gateway of the practice villages | `background` (villages) | `BackgroundProofs` |
| `TelemetryNotices` | notices and acknowledgements | `background` (notices) | `TelemetryProofs` |
| `SolarForecast` | refreshes, header and points, pages | `background` (forecast) | `BackgroundProofs` |
| `DeviceAdvisories` | advisories, policies, reviews, actions | `background` (advisories) | `TelemetryProofs` |
| `UtilityPortal` | accounts of grid operators | `background` (portal) | `EvidenceProofs` |
| `TelemetryLog` | what collector and ingestion promise together (abstract) | `deliveries` | `TelemetryProofs` |
| `TelemetryDelivery` | collector, spool, posts, ingestion; implements `TelemetryLog` | `deliveries` (samples) | `TelemetryProofs` |
| `LegRegistry` | entries, slugs, confirmation by link | `deliveries` (registry) | `BackgroundProofs` |

`MCInvoicing`, `MCCommunity`, `MCOperators`, `MCBilling`, `MCBackground` and
`MCDeliveries` compose modules that share no state. They have one more variable,
`part`, chosen in the initial state, which says whose actions a behaviour takes;
the reachable states are the sum, not the product, of those of the parts. A
property of one module is checked as it stands (it is about variables that do
not move in the other parts, and in their initial states no fair action of
theirs is enabled). The one exception is the import, whose `run_due` is enabled
at once: `MCDeliveries` asks its fairness only of the behaviours about files,
which is where `EveryDeliveryIsImported` is in question. The runs that expect a
violation use the smaller `MCInvoiceLifecycle`, `MCOperatorWebhooks`, `MCBillingPeriods`, `MCVnbMutations`
and `MCMeteringImport`.

Conventions: definitions keep the names of the functions they translate. A
database transaction is one step when nothing else can come between its reads
and its writes (it holds the rows it decides on), and two or more steps when
something can; those steps are named `Begin...`/`Commit...` or after the
statement. A request is a value of `proc`, `batch`, `sending`, `work` and the
like, that says where it is and what it has read. Operators called `X_something`
under a comment `mutant:` are deliberately wrong variants of `X`, one for each
checked property; nothing uses them, and they show that the property can fail:
replacing `X` by the variant makes TLC find the property violated.

### Money: InvoiceLifecycle, BankReconciliation, InvoiceQueries

`InvoiceLifecycle`: `events[i]` is `invoice_lifecycle_events` in id order, and
the state of an invoice is the `new_state` of its last row
(`current_invoice_state`); `job` is `invoice_delivery_jobs`; `corrections` the
links; `outbox` the identities in `operator_events`; `mails` counts the mails
that really left and is no state of the program. `dashboard.leg_deliver_invoice`
is a process: `BeginPrepare`, `CommitPrepare` (reserve the job), `MailSent` or
`MailFailed`, then `BeginComplete`/`CommitComplete` or `BeginFail`/`CommitFail`.
`MailFailed` may have sent the mail: `send_email` reports any exception as a
failure. `InvoiceLocked` and `JobLocked` are the row locks.
`fail_invoice_delivery` takes the job row before the invoice row, everything
else the other way round; `DeadlockAbort` is PostgreSQL breaking that cycle.
`Crash` may hit any request at any point, and its transaction is rolled back.

`BankReconciliation` EXTENDS it and adds `entry` (rows of
`bank_statement_entries`) and `confirmations`. `ImportStatement` is one
transaction that locks all invoices of the community: duplicates, matching,
decisions and bookings of all entries in file order. `ConfirmPayment` is the
operator's keyed confirmation.

`InvoiceQueries`: a status change holds its case row and is one step. The
reminder job keeps the list it read (`listed`) and marks one case at a time. The
correction reads live cases without locking them (`ReadLinkage`) and writes
their notes with what it read (`record_invoice_query_linkage`), holding its
invoice row, which the insert of a new case waits for.

### Billing: BillingPeriods, MeteringRegister, BillingArithmetic, SourceAudit

`BillingPeriods`: `ledger`, `refused` and `withdrawals` are the evidence tables,
`periods` the rows of `billing_periods`, `owner` the holder of the community row
all four deciding transactions lock. Invoice numbers are found by a pattern
(`LIKE '<prefix>-<year>-%'`), and a prefix may contain a hyphen: the numbers of
the prefix LEG-2026 are also found for LEG in 2026. `Finds` says which series a
pattern matches; so LEG alone may begin after 1. A billing run is `StartRun`,
`ReadEvidence`, `LoadFrames`, `Compare`, `BeginSave`, `CommitSave`, each read in
a transaction of its own. What is computed is represented by what it was
computed from: the delivery, the version of readings and policy, and the version
of the registrations.

`MeteringRegister` opens one of these: `load_period_frames` reads points,
readings and membership in one REPEATABLE READ snapshot and refuses a month that
is not whole (`billingRun` keeps the snapshot); lists, deliveries and
memberships go on in between. A delivery is two transactions,
`save_metering_point_readings` and `record_sdat_import`. Which LEG a reading is
of is known from the second alone: a run in the gap between them, or after a
ledger row that could not be written, does not see a point of the LEG that
nobody is assigned to, and `MonthIsWhole` speaks of the documents in the ledger. `BillingArithmetic` opens another: allocation by
quarter hour, prices, residues, settlement fee and shared battery as the engine
computes them with floats (energy in grains, money in quanta, rounded half up),
and what `billing_approval.py` demands of the draft before it issues invoices.
`SourceAudit` is the search for an allocation that explains the rounding of all
channels of an interval, over honest and altered deliveries.

### The grid operator: MeteringImport, SourceEvidence, Formation, VnbMutations

`MeteringImport`: `remote`, `plain`, `packed` are the outbox and the directory;
`reading[s]` is the document a reading came from, `ledger` is `sdat_imports`,
`lock` the tenant's advisory lock, `answer` the reserved or answered retry keys.
A run goes through `acquire`, `fetch`, `list`, `import`, `record`, `report` and,
with a key, `complete` or `release`. Operators import from a shell without the
lock. Deliveries are numbered in the order of their file names and overlap.

`SourceEvidence`: a request takes the advisory locks of its points in order,
then the community row, reads (`ReadMapping`), and commits. `binding` is what
lists say, `statement` a dated statement with the binding it was made for,
`accepted` the deliveries with the mapping frozen in them.

`Formation`: `bundles` are generated from members read earlier
(`ReadParticipants`, `replace_leg_document_bundle`); a receipt names the bundle
its signer `reviewed`; a submission is `CheckSubmission`, `claim`,
`SendPackage`, `record_outcome`, and may die in between (`SubmitterDies`).
`VnbMutations` is the same exchange for changes of participants, with a claim
that looks for an open mutation and inserts its own (`CheckClaim`,
`InsertClaim`).

### Members: Registration, CommunityRoles, ContactRequests, CommunityArchive

`Registration`: a link carries the revision of the profile it was mailed for
and the mailbox it went to; login and deletion links are looked up first
(`found`) and made one transaction each. `CommunityRoles`: `ReadRoles` locks the
rows there are, decides, and writes at commit with an event in `trail`; rows
inserted meanwhile are not locked. `ContactRequests`: a pair has one row for
good, which records the identity of both profiles; `since` is when a consent was
last touched. `CommunityArchive`: a restore checks the archive, takes the sequences of
the tables it has rows for (`Needed`), one by one in their order
(`lock_sequence`), fills the tables (`restore_rows`; `at` is the next one), moves
the sequences (`_advance_sequences`) and commits, beside sessions that draw ids.

### Queues and clients: OperatorWebhooks, OperatorAccess, EmailQueue

`OperatorWebhooks`: one delivery per event and subscribed client. `Claim` is the
`FOR UPDATE SKIP LOCKED` batch ordered by event time, with the take-over of
claims older than 15 minutes; `Post` is the request, whose answer may be lost;
`Record` is fenced by `claim_id`. Time is the two actions `ClaimGoesStale` and
`BackoffEnds`. `OperatorAccess`: a call is `Authenticate`, `claim_usage`,
`_page`; rows draw their id before they are committed. `EmailQueue`: a sender
works off the list it read (`held`). `SendMail` is the mail server's answer: a
mail it took may still be reported as failed, since `send_email` answers False
whatever raised. `MarkMail` is the row: the mark of a sent mail scrubs its
address, a failure counts an attempt, and the mark itself may fail
(`MarkFails`), which leaves the row to the next call.

### Devices: TelemetryDelivery, TelemetryNotices, SolarForecast, DeviceAdvisories

`TelemetryDelivery`: `spool` and `number` are the collector's database, `posts`
the requests under way, also those nobody waits for any more, `stored` and
`highwater` the server's; `flush_once` posts a batch, `_flush_locked` deals with
the answer. The history variable `log` holds every sample ever counted.
`TelemetryLog` says in five actions what the two promise together, and
`Log == INSTANCE TelemetryLog WITH Past <- Expired, kept <- spool` is the
refinement mapping; the log loses samples uncounted only in the step that gives
the collector a new disk (`life`). `TelemetryNotices`: a notice is a row with an episode;
`pending` is the mark that a projection was missed; `spell` counts outbreaks.
`SolarForecast`: `published` is the header, `cell` the keys of the points, each
with the hour it expires; a page reads the header and then a point.
`DeviceAdvisories`: the statements of the transaction that records an action are
steps (`LockOwner`, `LockPolicies`, `ShareCatalog`, `_published`, `Assess`).

### At the edge: UtilityPortal, LegRegistry, Villages

`UtilityPortal`: requests are chains of short transactions (`visit`), mails with
links wait in `inbox`. `LegRegistry`: `_unique_slug` tries a suffix before the
insert, a run of the cron job keeps the candidates it read (`nudge`).
`Villages`: a thread is a stack of calls, since starting, retiring and
collecting villages call each other; `op` is the reentrant operation lock,
`claimed` and `replaced` are `retirement_claims` and `replacements`; a step is
what a call does under the registry lock or between two uses of it. `Kill` stops
the gateway at any point and `recover` retires what it finds.


## 3. Runs

`tlc -workers 2 -config <run>.cfg <module>` checks a run. Every passing run ends
in two to four minutes.

| Run | Invariants | Action and temporal properties |
|---|---|---|
| `invoice_lifecycle` | `RecordsOK`, `AtMostOneMail`, `SentJobIsAudited`, `PaidOnceAfterDelivery`, `TakingsBounded` | `EveryRequestEnds`, `EveryMailSettles` |
| `operators` | `RecordsOK` | `OverdueIsReminded`, `DeliveredIsFinal`, `EveryDeliverySettles`, `InterestIsForgotten` |
| `community` | `RecordsOK`, `MatchesStand`, `VerifiedByItsMailbox`, `BundlesHold`, `EvidenceIsBound`, `ShownUnderUnbrokenConsent`, `StartIsEarned` | `RestoreIsWhole` |
| `background` | `RecordsOK`, `ImportsAreWhole`, `AcknowledgedIsCurrent`, `VillagesServe`, `ForecastStands` | - |
| `billing` | `RecordsOK`, `DraftEvidenceCurrent`, `CurrentEvidenceDisjoint`, `DraftsAndApprovalAgree`, `AuditIsSound`, `MonthIsWhole` | `IssuedIsFrozen`, `IssueIsGrounded`, `IssueIsDualControlled` |
| `deliveries` | `RecordsOK`, `OrderedImportKeepsNewest` | `AnswerIsDurable`, `EveryDeliveryIsImported`, `CountsOnceInOrder`, `EverySampleSettles` |

Each property is stated, with the code it is about, above its definition.
`RecordsOK` is one invariant per run: the type invariants of its modules and the
agreement of records a module owes besides:

- `MCInvoicing`: `CorrectionsAudited`, `Administrated`, `TrailIsTheRoles`;
- `MCOperators`: `HistoryLeadsToStatus`, `RemindedOnce`, `KeyedRepliesOnce`;
- `MCCommunity`: `ToldIsRecorded`, `RecordsHangTogether`, `CallsAreServed`;
- `MCBackground`: `PackedIsSettled`, `TargetsHaveTheirSource`, `ActionsStood`,
  `PortalHolds`;
- `MCBilling`: `OneLivePeriodPerWindow`, `NumbersRunOn`;
- `MCDeliveries`: `RegistryHolds`.

### Instances and bounds

Two requests are the least that interleave, and every hazard found is one of two
actors and one failure; a third actor is there where a third record is needed
(a third household beside two administrators, a third village after the two
there is room for). Limits are set so that they are reached: `MailAttempts`,
`HookAttempts` and `MAX_ATTEMPTS` 2 (the code: 3, 5 and 8), `MaxAttempts` 1 or 2
(a tenant chooses 1 to 5),
`MAX_QUEUE` 2, `MAX_BATCH`, `Batch` and `BatchSize` 1, `MaxVillages` 2. Failures
are bounded by `MaxFaults`, `MaxMishaps`, `MaxTroubles`, `MailCrashes`,
`HookCrashes`, `MaxDeaths`, `MaxAborts` (1 each; `MaxFaults` is 2 in
`deliveries`, where a failed run must be on record before an operator may retry
it and the retry must fail to report), growth by `MaxMessages`, `MaxLinks`,
`MaxBundles`, `MaxChanges`, `MaxSaves`, `MaxPeriods`, `MaxJobs`, `MaxItems`,
`MaxNumber`, `MaxPosts` and the like: all in the guards of the actions that grow.

Some compositions also restrict which of their combinations they look at, by a
scope beside the next-state relation:

| Scope (module) | What it leaves to look at |
|---|---|
| `EvidenceScope` (`MCBilling`) | three overlapping deliveries of one month, one administrator, nothing else changes |
| `ApprovalScope` (`MCBilling`) | one delivery of each of two months; the inputs or a registration change once, while one administrator is enough to issue |
| `GateScope` (`MCBilling`) | three of the four documents arrive; one change between the queries of a billing run; one delivery at a time waits for its ledger row |
| `EvidenceScope` (`MCCommunity`) | one point changes hands; the second request begins beside the first |
| `InterestScope`, `MutationScope`, `ArchiveScope`, `FormationScope` (`MCCommunity`) | actors that differ only in their name begin in one order; combinations handled alike are looked at once; two submissions at once meet no changed profile |
| `AccessScope` (`MCCommunity`) | pages are read with one token in one hour; the limit is tried on an empty list |
| `ForecastScope` (`MCBackground`) | what the weather service offers changes in one order; the second refresh begins beside the first, once that has its metadata; one refresh alone, when the second release has just come, may have noted its time an hour before it takes the lease |
| `AdvisoryScope` (`MCBackground`) | either an advisory is revised or its policy and reviews change |
| `InPairs` (`MCBackground`) | two of three workers and visitors are at work at the same time |
| `SampleScope` (`MCDeliveries`) | one late post at a time |
| `RegistryScope` (`MCDeliveries`) | entries are submitted before they are asked about |
| `FaultScope` (`MCDeliveries`) | the second failure meets the report of a retry |

The theorems of section 4 do without bounds and scopes.

Symmetry is used where a run has no temporal property with fairness:
`KeySymmetry`, `BackgroundSymmetry`, `BillingSymmetry`. Deadlock is checked in
`invoice_lifecycle` (requests), `operators` (webhooks), `background` (imports)
and `deliveries` (files), where somebody can always go on; the other parts of
these runs reach the end of their bounds and rest by an explicit stuttering
step. `community`, `billing` and two of the runs that expect a violation end
within their bounds and say `CHECK_DEADLOCK FALSE`.

### Fairness

- `InvoiceLifecycle`: strong fairness of each request's next step. A request
  holds a worker until it ends; a step it waits for is a row lock, which
  PostgreSQL grants in turn, again and again.
- `EmailQueue`, `InvoiceQueries`, `OperatorWebhooks`, `MeteringImport`: weak
  fairness of the senders', jobs', workers' own steps, since the cron surface
  (`cron.py`, called by the cron service of `docker-compose.yml` and documented
  in `docs/`) calls them again and again; and of time (`MailBecomesDue`,
  `ClaimGoesStale`, `BackoffEnds`, `NewDay`).
- `Registration`: weak fairness of the cleanup the cron surface calls and of the
  ageing of rows and links.
- `TelemetryDelivery`: weak fairness of the collector's loop, of its back-off,
  and of the end of a post, be it an answer or the client's timeout.

No property relies on an owner, an administrator, a neighbour or a failure to
act.

### What the code does otherwise than its documents say

Six runs look for a counterexample to a sentence of the repository and find one;
`PROJECT.json` quotes the sentences.

| Run | Violated | What happens |
|---|---|---|
| `invoice_cancelled_is_final` | `CancelledIsFinal` | a failing delivery read the state before a cancellation and appends it afterwards: the invoice is issued again |
| `webhooks_rearmed` | `RetriedIsDispatched` | a failed delivery that is re-armed keeps its attempts at the maximum and is never claimed |
| `billing_refusals` | `RefusalKeepsIdentity` | an overlap found under the lock is stored as a refusal under the fingerprint of an acceptance, and replayed for ever |
| `metering_corrections` | `LaterFilesCorrectEarlier` | an older file that is retried overwrites the values of a newer one |
| `battery_draft_unapprovable` | `BatteryDraftsAreApprovable` | the engine rounds battery energy twice, approval once: the draft can never be approved. (With more members a second cause: the share of a consumer is capped by a use rounded before it is added up, so that less than the discharged energy is given out) |
| `vnb_open_mutations` | `OneOpenMutation` | two requests find no open mutation to lock, and both insert one |

## 4. Proofs

`tlapm <module>.tla` checks a proof module; `PROJECT.json` lists the theorems a
reader should know of. All are about the specifications themselves, for any
values of the constants that satisfy the named assumptions. These say what a
constant is (a natural number, a function on a set), that "nobody" is nobody and
"no row" is no row (`NoCase`, `NoListing`, `NoClient`, `Free`), and little else that carries weight: `BookingKeys \cap OwnKeys = {}` (keys are
prefixed by what they are for, `bank:`, `operator:`, in
`store/billing.py`), `IsFiniteSet(Invoices)`, `IsFiniteSet(Senders)` and `IsFiniteSet(Listings)`,
finite and disjoint sides and a `Quantum` that can be halved for the audit, and
`MaxAge < CacheHours` for the forecast (a release is refused long before its
keys expire, `solar_forecast_cache.py`). Every assumption is evaluated by TLC in
a run.

### Invoices (`InvoiceLifecycleProofs`)

- `AtMostOneMail` is inductive only together with `ReservationHeld`: whoever is
  about to send owns a job row that is `pending`, and nobody else is past the
  reservation of that invoice.
- `SentJobIsAudited` needs `FailOwnsJob`. A fail locks the job row without the
  invoice row, so the proof has to show that no delivery of the same invoice
  resolves the job in between.
- `PaidOnceAfterDelivery` follows from `PaidInv`: in every trail, "delivered" and
  "paid" come after an event under the key of a delivery, "paid" is the last
  event, and no fail has read "delivered" or "paid". The last part is what makes
  it inductive although a fail writes back a state it read without the lock; the
  same argument does not hold for "cancelled", which is the finding above.
- `CorrectionsAudited`: link and both trails change in one transaction, and only
  the key of a link can name it.
- `MatchesStand` is proved about `BankReconciliation`, beside all the requests
  above. `ReconInv` adds that an event under a foreign key is a payment
  (`BookingsPay`), that a booked key belongs to a recorded entry
  (`EntriesKnown`) and that a confirmation booked its payment, alone under its
  key (`ConfirmationsBooked`). Two entries matched to one invoice would then be
  two payments in one trail, both its last event, under two keys. Of the
  entries of one statement at most one pays an invoice, because the import looks
  at the decisions before it in the file (`OnePayingEntry`).

- `HistoryLeadsToStatus` and `RemindedOnce` are about `InvoiceQueries`. What a
  reminder job or a correction holds in hand are cases that were opened
  (`InHandAreOpened`), and a case is never unopened; the status it read may have
  changed since. So each entry is made either under the case's row, from the
  status there is, or by a reminder, which leaves the status alone. That an
  entry at the end keeps the rest in order is proved once, for any history
  (`QueryInv` is the invariant). The history is spoken of by the places of its
  entries: filtering or counting sequences is out of the provers' reach.

### Billing (`BillingPeriodsProofs`)

`IInv` joins `DraftEvidenceCurrent` and `CurrentEvidenceDisjoint` to what a
request has read and must still hold when it commits: the holder of the
community row is the only one between its check and its commit (`RowHeld`), so a
delivery being stored overlaps none (`DeliveringDisjoint`), a run being saved and
a period being approved rest on evidence that is still current (`SavingCurrent`,
`ApprovingGrounded`), and the key of a withdrawal is still free (`WithdrawingFresh`). `IssueIsGrounded`, `IssueIsDualControlled` and
`IssuedIsFrozen` are then read off the commit of an approval.

`NInv` adds what is counted. A run saves only drafts and retained versions
(`SavingIsNew`), and a draft only into a window that is free
(`OneLivePeriodPerWindow`). The numbers found for a series are 1 to some n
(`Gapless`), no two invoices of a series have the same one (`NumberedOnce`), and
the first number an approval has read is still the next one when it writes
(`FirstIsNext`). That an approval keeps the numbers of every other pattern
gapless rests on what patterns are: what a pattern matches is matched by every
pattern that matches it (`BillingAssumption`), so the new numbers begin within
1 .. m, which the other pattern had found, or right after. Of the series alone
nothing more can be said: the numbers of one whose pattern finds another may
begin anywhere.

`MonthIsWhole`: what a run holds follows from the tables as they stood when it
began (`RunHolds`), whatever is written between its queries, so a frame without
a problem (`NoProblems`, `SoundRow`) is a month without a gap (`PassingIsWhole`).
That the members are billed all that was delivered is a statement about sums.
The folds of the community modules are recursive functions; that they exist on
every finite set (`AddsExists`), that any member may be added last
(`TotalWithout`) and that a total is the total of its parts (`TotalOfParts`) is
proved by looking at a smallest set for which it fails (`Smallest`), which needs
no induction theorem with an operator for a parameter.

`LinesAreApprovable` and `ApprovalPinsTheLines`, the two parts of
`DraftsAndApprovalAgree`, are proved for every split, price, fee and
number of members and slots. Before approval the state is the draft of a split
that balances (`MoneyIInv`), so both are statements about arithmetic. What the
rounding of all lines leaves together is at most half a quantum for each of them
(`RoundingError`, `ResidueBound`), which is what approval allows the adjustment
to be. And the quantities of a member and flow are those of the reconciliation
(`ReconciledQuantities`), so that another quantity, price or member meets a
check (`PinnedByQuantity`, `LinesPinned`).

### The audit of a delivery (`SourceAuditProofs`)

`AuditIsSound` says that an honest delivery is never disputed and that what is
certified is explained. `AuditIInv` adds that the delivery is one of those
enumerated; the rest is one step, so the proof is about the algorithm.

- Ratios are reduced by a greatest common divisor. The code leaves this to
  `fractions.Fraction`; the model has a recursive function, and `GcdIs` shows that
  it exists and `GcdDivides` that it divides both. From there on a ratio is any
  fraction it is equal to (`Is`, `RatioIs`, `LessIs`, `PlusIs`).
- The search finds a ratio between its bounds that was compared with what the
  used up side had to give, or gives up (`SearchFinds`, `BisectedFinds`). A ratio
  between the bounds leaves every point some room in each of its three cells
  (`Crossings`, `RoomAtRatio`), which makes it a certificate
  (`PartialCertifies`).
- Of an honest proportional delivery, each channel lies in the cell of its
  report (`RoundsIntoCell`, `HonestRow`). A side that gets all it asked for is
  found used up (`HonestFull`), an interval without exchange is found empty
  (`HonestZero`), and the true ratio lies strictly between the bounds of the other
  side (`HonestInBounds`, `HonestPart`), so the search is begun and ends certified
  or unresolved (`HonestStands`).
- The einfach model repeats the operator's arithmetic, so an honest delivery is
  certified (`HonestEinfach`). What needs a proof is that no point is given more
  than it has (`EinfachBounded`): sums of ratios are bounded over a common
  denominator (`CommonDenominator`, `SumBounds`), first the equal shares, then
  what is left over (`SpreadBounded`, `SharesBounded`).

That the search gives up on few honest deliveries is not claimed: it may always
answer that it found no ratio in `MaxSteps` steps.

### Evidence, the portal and archives (`EvidenceProofs`)

`EvidenceInv` says which locks a waiting request holds (all those before the one
it waits for, in one order) and that evidence being saved is firm: its bindings
are those of points it holds. Freedom from deadlock is proved as an invariant:
the locks a request waits for lie above those it has, so no circle closes.

`PortalHolds` follows from `PortalInv`. Links are numbered as they are given out,
and every link there is has been (`GivenOut`); no two accounts wait for one link,
and none for a link that was used (`LinksDiffer`); the link an account waits for
is not before any that was mailed, or is about to be mailed, to it
(`LatestStands`). So a link that signs in is the latest of its account, and is
cleared by the statement that uses it. Accounts are never deleted
(`KnownClients`), so a request that finds one before a crash, or before another
request, still finds it.

`RecordsHangTogether` and `RestoreIsWhole` follow from `ArchiveInv`, for any number
of communities, sessions and restores under way. A session that has an id in
hand is a user of its sequence and the id is below the next value and unused
(`DrawsHold`); a restore that fills tables holds every sequence its archive has
rows for, which has no users then, so none of its ids is in a session's hand
(`RestoreHolds`). A session that pays an invoice has an event in hand, and every
invoice of an archive comes with an event (`DataOK`), so no invoice that is being
restored is paid meanwhile. Rows of two restores differ in their ids, since the
second waits for the first (`RestoresHold`). That the sequences end behind all
restored ids needs that a set of numbers with a bound has a greatest
(`GreatestId`), from the well-foundedness of the natural numbers.

### Members and the LEG (`MembersProofs`)

- `ShownUnderUnbrokenConsent`: a grant is identified by the profiles it was given
  under (`ApprovedAsIdentified`), which change whenever a consent does.
- `Administrated`, `TrailIsTheRoles`: at most one request decides at a time,
  because every decision locks the founder's row, which is never deleted
  (`FounderStays`, `OneDecides`); what it decided on stands until it commits
  (`DecisionStands`), although rows inserted meanwhile are not locked.
- `VerifiedByItsMailbox`: a live link of the current revision was mailed to the
  mailbox of the profile (`LiveLinksVerify`).
- `BundlesHold`, `StartIsEarned`: a receipt names the bundle its signer read, a
  bundle's case is the only one, and what the adapter received is the bundle of
  a case. The profile may change at every step in between.
- `ToldIsRecorded`: a request past its claim carries the facts its case records
  (`ClaimIsRecorded`), because the claim is inserted with them and a case is never
  rewritten; what the operator was told is such a case (`ToldOnlyCases`). Every
  state a case moves to is entered in the ledger by the same transaction, and a
  final entry is the state of its case for good (`LedgerFollows`).

### Queues (`QueuesProofs`)

- `DeliveredIsFinal`: the record of an outcome matches the claim it was made
  under, and a delivery in hand has an attempt left (`AttemptLeft`).
- `TakingsBounded`: what the server took of a mail, and the senders that listed
  it and have not posted it yet, are together no more than there are senders,
  deaths or failed marks, and counted failures that put the row back
  (`RoomForHolders`; `Returns` counts the last). A row can be listed again only
  while every taking so far is in the hand of a sender, was lost with one or
  counted as a failure (`TakingsAccounted`), because the mark of a sent mail
  scrubs its address; and a row that waits has an attempt left (`TriesLeft`).
- `CallsAreServed`: what was there all the while and lies at or below the cursor
  was seen (`NothingIsSkipped`), because a page is a beginning, by id, of what was
  found beyond the cursor (`PagesAreWhole`); and the uses of a client in any hour,
  also one to come, are at most its limit (`Counted`).

### Devices (`TelemetryProofs`)

- `CountsOnceInOrder` is the refinement of `TelemetryLog`. `DeliveryInv` says
  that the numbers of the spool rise above those of the server, that credentials
  only rise, and that a sample acknowledged by the answer in hand is in the log.
  Every step maps to one of the log's five actions or a stutter (`LogStep`); a
  disk that is replaced, a late answer and a repeated post included.
- `AcknowledgedIsCurrent`: an owner was told of no later episode than the
  notice's own (`ToldInTime`). While projections were missed anything may be told;
  the next one starts a new episode of whatever is active, above all that were.
- `ActionsStood`: one window at a time is past the lock of the household's row
  (`OneRecords`), so the device it found there stays (`DeviceStands`); what it reads
  of the catalogue and judges by policy and reviews stays because the reviewers
  wait for its locks (`JudgementStands`). The day it judged by is recorded with the
  judgement and may pass before the commit.

### The background (`BackgroundProofs`)

- `ForecastStands`: points are written before their header and live longer
  (`HeaderIsWhole`); a refresh whose lease ran out publishes over no newer header,
  and one that holds it works on a release that was current an hour ago at the
  earliest, when it noted the time (`WorkIsCurrent`); a page shows a point of the header it read
  (`PagesAreOfHeaders`, `ShownIsOfficial`).
- `ImportsAreWhole`, `PackedIsSettled`, `AnswerIsDurable`: `WorkIsKnown` says
  that the document a process is about to enter in the ledger is stored, and
  that the index it works with is part of the ledger.
- `OrderedImportKeepsNewest`: without a failure the one run at work goes through
  the files in order (`FilesInOrder`), and every reading is of the newest
  document in the ledger or of the one about to enter it (`NewestIsKept`).
- `RegistryHolds`: a run asks only entries it found moderated, and moderation
  never goes back (`RunsAskModerated`); whoever is about to confirm holds a token
  that was mailed (`ConfirmersWereMailed`), although a later run may have replaced
  it meanwhile.

### Practice villages (`BackgroundProofs`)

`VillagesServe` and `TargetsHaveTheirSource` are two conjuncts deep in
`VillageInv`, an invariant over the call stacks of all threads:

- What a call can rely on depends on the call and its village alone
  (`CallHolds`): a request past its beginning holds the operation lock of a
  village with a worker and a directory, a destroy past its beginning is of a
  village that is not live any more, and one that has stopped the worker has no
  destination left to retire.
- On a stack the villages grow towards the innermost call (`Ordered`), because a
  destination is created after its source. So no thread locks a village twice,
  and what an outer call has locked is not touched by the calls inside it
  (`Unmoved`), although the lock is reentrant.
- Each call waits for the one inside it for a reason (`Nested`), and a destroy
  that answers that the village is gone says the truth (`TopHolds`): the outer
  destroy may drop that destination from its list.
- Ids are given in order, a destination has its source, and what can be used has
  a worker (`VillagesStand`). What never comes back (`VillagesAge`: a village
  that is not live, a source, a new destination of what is being destroyed) is
  what lets the calls of the other threads keep what they rely on (`CallStays`).

The proof has one lemma for each action, most of them an instance of "the
innermost call of a thread goes on, returns or calls another". TLC checked
`VillageInv` on an instance with three villages and two visitors before it was
proved.

### What is model-checked only

- Liveness (`EveryRequestEnds`, `EveryMailSettles`, `OverdueIsReminded`,
  `EveryDeliverySettles`, `InterestIsForgotten`, `EveryDeliveryIsImported`,
  `EverySampleSettles`) and everything that needs ENABLED: out of the prover's
  reach.
- That the split of battery energy passes approval is not claimed, for it does
  not: `BatteryDraftsAreApprovable` is violated (section 3), and the balance of
  the split (`BatteryBalances`) fails too once there are more members than the run
  has. `DraftsAndApprovalAgree` is about the lines.

## 5. What is not modelled

- Formats, texts, amounts that no property tells apart, and authorization: which
  role may call a route. A handler is modelled from the point where it is
  allowed to act.
- Failures of the database itself; isolation below READ COMMITTED; the loss of a
  committed transaction.
- Invoices: PDF and QR bill. Statements: the camt XML.
- Villages: the proxy and its headers, `close()` of the gateway at a regular
  end, the tours, and the export of a village's archive.
- Archive: rows that change without a new event; readings restored in batches.
- Telemetry: the eviction at `MAX_SOURCE_HISTORY`, the window of the rate limit,
  retention of aggregates, overviews.
- Forecast: eviction by Redis and the HTTP session. A release is a set of rows.
- Register: defects of a row are abstract; the deletion of a profile is the
  Registration's, and membership changes by any step.
- Evidence: two points whose advisory locks have the same hash.
- E-mail: `cancel_emails_for_building`, which nothing in the program calls.
- Advisories: texts. Portal: the session cookie. Registry: a name is shared by
  two entries, never by three; the claim of an entry by its grid operator
  (`set_registry_claim_token` and its companions); rankings are read models.
- Components without a module are listed in `PROJECT.json` with the reason:
  public data and enrichment, neighbours and clustering, web application,
  presentation, schema.
