# Verification project for PropertyAIgent

PropertyAIgent collects planning applications from council portals, links them
to sites and local-plan allocations, reads their documents, and tells buyers
what is worth pursuing. This project models the parts of it in which something
can go wrong that a test would hardly reach: state that several processes write,
work that is interrupted and taken up again, external effects that must not
happen twice, and answers derived from facts that arrive in any order. The
models are TLA+ modules, checked with TLC on small instances; the guarantees of
the work ledger and its coordinator, of the admission of new identities, of paid
evaluations and mandates, of the relationships of Sites and allocations, of the stored
affordable position and of the monitoring of opportunities, of council runs and their daily
job, of status verification, and of the evidence pipeline are also proved with TLAPS for
every value of their constants.

## 1. Inventory

| Component | State it keeps | Hard behaviour | Modules |
|---|---|---|---|
| **Work ledger** (`app/ingestion/ledger.py`, `schema.py`) | control row (stop, grants, cooldowns), work rows, attempt rows | leases that expire, stale claims, crashes inside an effect, lost commits and acknowledgements, a stop that races everything | `Ledger`, `WorkAuthority` |
| **Stage coordinator** (`coordinator.py`) | none; each method is several ledger transactions | methods interleave, refusals in mid-method, resume after a lost completion | `Coordinator` |
| **New identity admission** (`new_identity.py`, `pipeline/discovery_admission.py`) | application rows | two commits behind one write intent, beside the weekly insert of the same reference | `NewIdentity` |
| Batching, worker interface, SQL client, observation history, listing adapters | none of their own, or append-only items | | not modelled, section 7 |
| **Weekly run** (`pipeline/run_weekly.py`), circuit breaker, acquisition health | `scrape_runs`, application stamps, counters of one run | outages in mid-stage, stamps that must stay off, streaks | `CouncilRun`, `PortalCircuit` |
| **Documents, evidence refresh, intelligence refresh** (`run_weekly.py`, `evidence_refresh.py`, `extraction/intelligence_refresh.py`) | stored documents, requirement and evidence stamps, watermark | two jobs that hand over by time stamps; evidence that arrives in between; failures that stay selected | `EvidencePipeline` |
| **Status verification** (`status_verification.py`) | status, decision, date, event history | a page read before and written after another writer; a bounded daily selection | `StatusVerification`, `VerificationRota` |
| **Daily council job** (`scripts/run_daily_councils.py`) | one database session, one subprocess per council | subprocesses that hang, crash or are killed, a session that refuses everything | `DailyCouncils` |
| **Document isolation** (`security/document_browser.py`, `document_process.py`) | job directory, journal, backups, lock, pipe | three processes that may die, a deadline, an acknowledgement that races it | `DocumentJob` |
| **Historical rebuild** (`extraction/historical_rebuild.py`, its unattended script) | versions of stored intelligence | batches with failures, kills, an abort rule | `HistoricalRebuild` |
| **Affordable housing position** (`extraction/intelligence_refresh.py`) | the stored position of an application | four guards in sequence against answers of any kind | `AffordablePosition` |
| **Planning position** (`reporting/scheme_reconciliation.py`, `residential_count.py`, `pipeline/phase_tracking.py`, `lapse_tracking.py`) | none: computed from linked applications | supersession, conflicts, phases, deadlines, in any order of filing and deciding | `PlanningPosition` |
| **Opportunity monitoring** (`reporting/opportunity_change.py`, transition, rebaseline, rollback) | one row per opportunity | a change taken for known without having been reported | `OpportunityMonitoring` |
| **Site consolidation** (`pipeline/site_linking.py`, review page, relinking) | Sites and links of applications | one long transaction beside operators' clicks | `SiteLinking` |
| **Relationships of Sites and allocations** (`app/policy`) | relationship rows, evidence, an allocation's match | four writers with stale reads; decisions of people that software must not undo | `RelationshipReview` |
| **Paid evaluations** (`policy/agent_evaluation_persistence.py`, `acquisition_evaluate.py`) | claim, history and current rows | two workers pay for one thing; a crash between payment and record | `EvaluationClaims` |
| **Mandates and baselines** (`policy/buyer_profile_store.py`, `mandate_*.py`) | mandate rows, reviews | operators with sessions loaded earlier; releases; rollback | `MandateBaseline` |
| Discovery contract, scrapers, rest of reporting, search, UI, scripts | | | not modelled, section 7 |

How they interact. The weekly run scrapes, verifies, links, downloads and syncs in
one process per council and commits after each portal call; the daily job starts
those processes. Intelligence processing is a job of its own that takes over from
the weekly run through stamps on the application row. Operators' commands and the
interface write the same rows at any time. The ingestion workers are a second,
newer path to the same application rows: a worker calls the coordinator with a
`Claim`, the coordinator calls a supervised reader (the portal) or an external
writer (which commits on a connection of its own) between ledger transactions,
and the ledger serialises all of them on the lock of its control row.

What makes each part correct:

- **Ledger**: at most one source call per item; effects paid for before they
  start; unknown effects block and stop rather than retry; stale workers change
  nothing; finished and blocked items and closed attempts are final;
  dependencies are complete at every lease and never cyclic; stop and cooldown
  freeze what they say they freeze.
- **Coordinator**: a retained receipt precedes its children; a complete scope has
  all of them; a verified write is not written again; a source call ends
  accounted for.
- **Runs over portals**: what was not read does not count as read; what failed is
  tried again; success and exit codes are truthful; every job ends.
- **Stored answers**: no answer without the evidence it claims; history replays to
  the stored facts; nothing changes without being reported.
- **Decisions of people**: what was accepted, rejected, reviewed or approved stands.

`PROJECT.json` lists every component with its status, and every hazard with the
line where it bites and the properties that watch it.

## 2. Modules

| Module | Contents |
|---|---|
| `Ledger` | class `Ledger`: one action per method |
| `LedgerProperties` | its type invariant, safety and action properties, and the inductive invariants `EffectInv` and `LeaseInv` |
| `WorkAuthority`, `LedgerRefinement` | the abstract specification of what a ledger promises, and the mapping under which `Ledger` implements it |
| `LedgerProofs` | theorems about the ledger |
| `Coordinator`, `CoordinatorProperties`, `CoordinatorProofs` | worker threads that run coordinator methods over the ledger, and theorems about them |
| `NewIdentity` | admission of one new application by several workers beside the scrape |
| `EvaluationClaims`, `EvaluationProperties` | claim, payment and recording of paid evaluations |
| `MandateBaseline`, `MandateProperties` | seeding, re-onboarding, rollback and correction of mandates |
| `PolicyProofs` | theorems about `EvaluationClaims`, `MandateBaseline`, `RelationshipReview` and `SiteLinking` |
| `EvidencePipeline`, `EvidencePipelineProperties`, `EvidenceProofs` | documents, evidence refresh, intelligence refresh, and theorems about them |
| `PortalCircuit` | circuit breaker and acquisition health as values, used by `EvidencePipeline` and `CouncilRun` |
| `CouncilRun`, `CouncilRunProperties`, `CouncilProofs` | one council's weekly run, stage by stage, and theorems about it |
| `DailyCouncils` | the job over all councils; theorems in `CouncilProofs` |
| `StatusVerification`, `VerificationProperties`, `VerificationProofs` | verification of one row beside other writers of it, and theorems about it |
| `VerificationRota` | which rows are verified when |
| `DocumentJob` | parent and custodian of one document job |
| `HistoricalRebuild` | batches and the job around them |
| `RecoveryProofs` | theorems about `NewIdentity`, `HistoricalRebuild` and `DocumentJob` |
| `AffordablePosition` | the four guards of a stored position |
| `PlanningPosition` | what is told of a site, as operators over its applications |
| `OpportunityMonitoring` | sync, transition, rebaseline, rollback |
| `PositionProofs` | theorems about `AffordablePosition`, `OpportunityMonitoring` and `PlanningPosition` |
| `SiteLinking` | consolidation of applications into Sites; theorems in `PolicyProofs` |
| `RelationshipReview`, `RelationshipProperties` | the four writers of relationships; theorems in `PolicyProofs` |
| `MC*` | instances for TLC |

Small components keep their properties, and the inductive invariants that the proofs
rest on, at the end of their own module; the others have a `...Properties` module.

**Parts.** An `MC` module asks its questions side by side. A variable `part`
chooses at the start which of them a behaviour belongs to. Components of different parts
share no state in the code, so the states of a run are the sum of those of its parts and
nothing is gained by interleaving them. Parts of one component differ in what there is
to do: where the `MC` module extends the component (`MCCoordinator`, `MCPolicy`, `MCPositions`,
`MCEvidence`, `MCCouncils`, `MCRecovery`, `MCSites`, and `MCStatus` for the row), `Within` says what keeps each part small where something has to, and the
properties checked are the component's own, the very definitions the theorems of
section 5 are about; elsewhere a part is an instance with constants of its own, and a
property of it reads `part = "..." => ...`.

Operators whose comment says *Mutant of X* are plausible bugs of the code. No
specification uses them: each is substituted for `X` in turn to see that the
property it is listed with in `PROJECT.json` is really able to fail.

### `Ledger`

| Variable | In the code |
|---|---|
| `clock` | `self.clock()` |
| `stopped`, `deferredUntil`, `grants` | `control['outcome']` : `global_stop`, `council_deferred_until`, `grants` |
| `rows`, `attempts` | the two tables; `rows[k].state = "ABSENT"` is "no such row" |
| `uncertain` | claims whose `fenced_effect` raised after it entered the writer |
| `calls`, `paid`, `written`, `known` | history: source intents, write allowance spent, commits of the external writer, commits whose read-back was checkpointed |

`Ledger.tx` takes the control row's lock (PostgreSQL `FOR UPDATE`, SQLite's write
reservation) before it reads anything, so every method is one atomic action with
the code's refusals as guards: a refused call raises `Denied` and changes
nothing, hence is no step. The exception is `fenced_effect`: the external writer
commits on a connection of its own, and the stop after an exception is a second
transaction whose failure the code swallows. It becomes three actions:
`FencedEffectCommit` (writer and ledger committed, acknowledgement received or
lost), `FencedEffectRollback` (the ledger rolled back to the durable
`WRITE_INTENT`; the writer did or did not commit) and `ReportUncertain` (the
later stop, which may never come).

Any claim that was ever issued may be used by any action at any time: delayed,
duplicated and stale calls, and callers that ignore the coordinator, are all
included. A crash needs no action here, because the ledger keeps nothing outside
its database: a dead worker is one that makes no more calls. The one assumption
about callers is `Usable`: a caller that received `UncertainPersistence` makes no
further call with that claim. Both callers of `fenced_effect` let the exception
leave the method.

Abstractions. A key is the digest of subject, task, contract and revision, so
`Identity` gives each key what the ledger reads of them. Evidence is a set of
receipt kinds; `ClosedEvidence` are those with closed cleanup, complete
accounting and valid outer bounds, the only thing `checkpoint` and `finish` look
at. A re-enqueue of an existing key returns it or is refused, so it is no step.
The clock does not move within a transaction. Formats, payload bounds and the
32 MiB ceiling are left out; the row, attempt and grant ceilings are guards.

### `Coordinator`

Each worker has a program point, the claim it holds, whether it is inside the
`try` block of `source()` and the children it still has to insert. Ledger calls
are the `Ledger` actions themselves, applied to the held claim. A call the ledger
refuses is an action of its own (`SealRefused`, `MaterializeRefused`, ...): inside
the `try` block every exception leads to `stop(claim)`, elsewhere it leaves the
method and the lease is abandoned. That stop is made inside the `except` clause and may
itself raise (`StopAfterException`): the exception then leaves `source()` with its intent
unsettled and nothing stopped, and only `recover` closes it, as uncertain. `Crash` removes a worker between any two
transactions; `RecoverAbandoned` is the operator's `recover`.

`idox_source` and `idox_listing` have the same sequence of ledger calls as
`source` and `listing`, with a replay gate that admits less, so they are covered by the
same actions; the capture-only branches (`materialize=False`), `retained_capture` and
`idox_form_probe` are not modelled; the new-identity path is in `NewIdentity`. Two hazards the
ledger alone cannot show live here: what a *refusal* does to the caller
(findings 1 and 2 below), and which checkpoint a later attempt finds (finding 3).

### `NewIdentity`

`stopped`, `item` and `worker` are the ledger's stop, the one work item and each
worker's step with the fence of its claim; `app` is the application row. The pending
identity and its facts are two commits of the application database made inside one
ledger transaction that keeps the control row locked, so another worker waits while
the scrape does not. A worker may die after either commit, the effect may raise, and
the report of an uncertain write may be lost. Recovery settles the item as `Ledger`
does. Bounds: `MaxTries`, and `MaxFacts` versions of the facts the scrape writes.

### `EvaluationClaims`

`claims`, `history` and `current` are the three tables, `worker` the statements of
`run_persisted_evaluation` at which another session's commit may intervene: the look, the
insert or conditional update of the claim, the provider call, the insert of the history
row, the locked read of the current row, the commit. A claim is reclaimed by its age
alone. The code has no bound on how long an evaluation takes: `MaxLatency` is one of the
model, beyond the expiry, and `late` remembers the fingerprints that were recorded by a worker
whose evaluation had outlasted its claim. `forced` and `runs` are histories and bounds.

### `MandateBaseline`

Every command of an operator is a load step and one step per commit, because a session
keeps the rows it loaded and writes them by primary key. `Deploy` is a release with a
new policy version, `Drift` a rule changed outside these commands, `Crash` a dead
process. A plan is named by what it was computed from; `reviewed` holds the digests a
person has seen.

### `EvidencePipeline`

`app` has the evidence columns of an application: the stamp of the document pass, the
requirement with its reasons, the two hand-over stamps, the watermark and the outcome of
extraction. `daily` and `intel` are the two jobs, one step per portal call or commit.
`Breaks` takes the portal down or breaks one document or page, `Heals` ends that.
`owed`, `found`, `asked` and `handed` are histories the properties need. The bounded
selection and its order are those of the code, with the limit as a constant.

### `CouncilRun`, `PortalCircuit` and `DailyCouncils`

`run` is the stage, its work list, the circuit and the acquisition health of one
process; a step is one portal call with the commit that follows it. A month is the search
that lists its applications and one step for each of them: the failure of a detail page is
swallowed, recorded nowhere, and the others are stored. A download is a step of its own; the
health counts the listing before it and not the download, which only leaves the application
without its stamp. `disk` has the files that are on the machine, which need no call.
The circuit opens after three host failures and is never closed within a run, as in the code.
`streak` counts the recorded host failures since the last success independently of it; a
success of the scrape, which the code records nowhere, moves them to `forgiven`. `missed` is
the work the health counts and the run failed or skipped.
`DailyCouncils` has the orchestrator around such runs: spawn, streamed output, the
timer thread that kills a hung subprocess, the `ScrapeRun` row, the session that refuses
every statement after one that failed, the exit code.

### `StatusVerification` and `VerificationRota`

A verification is three steps: snapshot of the row, fetch of the page, conditional
update with its events. Two may run on one row, and a scrape may select and write the
same row. `asof` remembers from which version of the page a fact was last taken, and
`scraped` whether a scrape has written.
`VerificationRota` has the daily selection by tier, cadence and age with its reserved
place, and failures and kills that leave a candidate for the next day.

### `DocumentJob`

The parent saves each download over an existing file behind a journal, a backup and a
partial file; the custodian waits for an acknowledgement on the pipe, the abort marker,
the parent's death or the deadline, and undoes what was not committed. A copy is two
steps, so a death leaves a torn file; the removal of the directory is in two steps, of any
of its entries and of the rest. Either process may be killed anywhere, every wait for the lock or for
the other process may reach its limit, and `killed` remembers who was killed. The
guardian, which relays the browser, is reduced to whether it runs.

### `HistoricalRebuild` and `AffordablePosition`

The rebuild selects batches of candidates, refreshes each, counts failures and progress
and stops on the code's conditions; documents arrive during it. One refresh is two steps: the
provider answers, which is paid for, and the answer is committed together with the marker. In
between the answer may be refused, the commit fail or be made without its acknowledgement, or
the run be killed; `paid` and `lost` count the answers and those that came to nothing. `AffordablePosition` is
what one such refresh stores: `Refresh(new)` selects evidence, lets the model answer
anything its schema admits and applies the four guards in the code's order.

### `PlanningPosition`

The state is the applications of a site as other components leave them; `Touch` files,
decides, corrects or extracts one of them and `NextDay` moves the calendar. Everything
else is an operator: eligibility and supersession of permissions, agreement and conflict
of totals, scopes and phases, the consented reference, the clock of a permission. That a sum
of phases counts homes once is stated without the sum: every phase in it has its homes from an
application that names that phase and no other (`BucketsCountHomesOnce`), so that no
application serves two.

### `OpportunityMonitoring`

A pass of the sync reads the universe, reads the rows, and commits the columns that
changed. The operator's commands are a transition by manifest, the rebaseline of a new
fingerprint field and its rollback, each a plan that is reviewed, a check of a digest
and a write. Passes, commands and changes of evidence interleave at any point, passes with
each other too: a row is flushed column by column, against what its own session had loaded.
`told` has all the evidence reported so far. `slipped` remembers the opportunities whose
evidence changed after the rebaseline's digest was checked and before its engine read the
universe again, the one gap that `NoSilentChange` leaves.

### `SiteLinking` and `RelationshipReview`

The link stage is a step per application and a commit. Until then its rows and its new Sites
are its own (`stage.rows`): production runs on PostgreSQL at READ COMMITTED, so the stage
sees what others commit, they do not see what it has written, and nobody waits for it;
SQLite, which the tests use, admits fewer of these interleavings. A rollback leaves the ids
of the stage's Sites unused (`Gone`). A click loads a suggestion and writes the columns it
changed later; any number of operators may have one under way, also on the same suggestion,
and `overtaken` remembers that another answered it meanwhile. `Relink` moves the applications of
a Site in one call, hence one step. Addresses, citations and similarity are constants, since
the code computes them from fields that do not change.
In `RelationshipReview` the scan, the controlled batch, the cleanup and the review of a
match each keep a snapshot that may be stale when they write; an uncommitted insert
blocks another of the same pair.

## 3. Runs

| Run | Question | Parts | Result |
|---|---|---|---|
| `ledger` | one source call, attempts accounted, uncertain writes guarded, stop and cooldown, refinement of `WorkAuthority` | a scope and a dependent refresh, two attempts each; two competing refreshes with two writes granted | holds (656 000 states) |
| `coordinator` | scopes complete with their children, one commit, receipts first, an open source call ends with a receipt, a failure record or the stop, and ends (liveness) | listing with deaths and a stop that raises; metadata; two overlapping scopes with a full table; a refresh with two attempts | holds (194 000) |
| `policy` | one payer; no baseline fresh without reassessment; only what was reviewed is applied | three claimants, one slower than the expiry; rollout through a deployment; seeding | holds (2 224 000) |
| `evidence` | what failed is retried, what counts as processed was read, requests end only by a complete check, and are answered (liveness) | two related applications, Intelligence Processing away; one with two documents, two reasons and both jobs | holds (333 000) |
| `councils` | success and exit codes are truthful, the circuit opens on a streak only, listed filings are found, the job ends (liveness) | a run of two months, with lost details and downloads, outages, breakages and a kill; the job over two councils with a database error and a kill | holds (874 000) |
| `status` | history replays to the row, nothing older is verified, no candidate is starved (liveness) | two verifiers; a verifier and a scrape; the rota | holds (443 000) |
| `recovery` | outputs all or nothing, every job ends (liveness), the rebuild is complete when it says so, pays again only for what was lost and gives up only on more than one failure, no identity without facts unless guarded | job of two files with deaths, timeouts and a deadline; rebuild; admission | holds (548 000) |
| `sites` | everyone gets a Site (liveness), links stand, decisions of people stand, collisions are proven | parent, phase and suggestion, three filings of one address, each with two operators beside the stage; all writers; the scan and the batch with an older document that always fails | holds (259 000) |
| `positions` | permissions and homes add up, ancillary filings are inert, secured positions have an origin and keep their figures, no change is silent | three constellations of applications; five documents; two passes that overlap each other with the rebaseline and its rollback, or with a transition and a failed pass | holds (807 000) |
| `local_failure` | does a stop always have a cause? | two scopes of one council, one of an isolated contract, no deaths, leases that do not expire | **violated** (finding 1) |
| `transient_retry` | can a deferred transient be retried? | one scope leased again after `RATE_LIMIT` | **violated** (finding 2) |
| `buried_readback` | is a fact committed twice, with three attempts? | a lease that runs out before the write is completed | **violated** (finding 3) |

Deadlock is not checked: a stopped or finished ledger, a bounded day count or an
exhausted bound rightly does nothing more. That jobs end is a liveness property instead.

**Bounds.** All are constants, or values of an instance in an `MC` module.

- *Ledger and coordinator.* The interesting histories need one expiry and one further
  lease (clock 2 with leases of 1; an attempt beyond the second meets the same guards as
  the second), two items (every property relates at most a pair; cycles are excluded by
  proof) and one competing worker. An allowance of one less or one more than wanted covers
  both sides of exhaustion. Where attempts are counted `buried_readback` shows the third.
- *Faults.* One or two outages, one crash, one error each: every property is about one
  interrupted piece of work and its resumption, and a second fault meets the state a
  first one leaves.
- *Numbers of the code that are scaled*: cadence 7, 14, 30, 60 days to 1, 2, 3, 4 and the
  daily limit of 10 to 2; cooldown of 30 days to 2; batches of 25 to 3 and 60 batches to 4, with
  them the failure rate of one in five from five on to one in three from three on;
  three years of a permission to one day and the warning of 180 days to none; the prompt's
  120 000 characters to four documents of five. The thresholds 3 and 2 of the rebuild, 3
  of the circuit and `RefreshLimit` 20 are the code's own.
- *Histories.* One material change per application (two for the single one), three
  versions of a page and three commits, two passes of the sync at a time, one relinking, one death
  of the link stage, one human review. Pages carry a date only with a decision, as portals do.
- *What a property excepts rather than a bound excludes*: evaluations that outlast their
  claim (`OnePayer`), successes of the scrape (`OpensOnAStreak`), evidence that changes
  after the check of a digest (`NoSilentChange`), overtaken answers (`LinkStands`). All of
  them happen in the runs; section 4 says what the property would say without its exception.

**Fairness.** Only the liveness properties need it, and it is always weak.

| Property | Assumed | Because |
|---|---|---|
| `SourceIsAccounted` | a worker inside a method keeps running | the reader's supervisor enforces `outer_seconds`, the database has lock and statement timeouts; the part excludes deaths, after which nothing is promised until an operator recovers. A stop that raises ends the method too: the exception is what tells of the call, and `OpenCallEndsAccounted` says what may become of the intent afterwards |
| `RequestsAreAnswered`, `HandoffsAreProcessed`, `FilingsAreFound` | runs are started and continue; an outage ends | both jobs are scheduled daily; page loads have timeouts |
| `JobEnds` | the orchestrator's steps and its timer | the timer thread is armed before the output is read |
| `NoneIsStarved` | days pass, the run begins and verifies | daily schedule; failures and kills are bounded |
| `JobsEnd` | the parent's steps (or its failure) and the custodian's | local processes; all their waits have limits |
| `SchemeLinked` | the stage runs; the operator answers suggestions | weekly schedule; the review page exists for that |

## 4. Findings

The three runs that expect a violation:

1. **A local failure stops everything** (`local_failure`). `fail()` reviews a
   `RATE_LIMIT` as local and sets a council cooldown. `_owned` applies the
   cooldown to *every* call on a scope of that council, checkpoints included, so
   another scope whose read just succeeded cannot store its receipt; `source()`
   answers the refusal with a global stop. `IMPLEMENTATION.md` promises
   independent outcomes and lists only unknown, security, accounting and cleanup
   failures as global. A write intent of an unrelated refresh, a grant that
   expires in flight and a full table have the same effect.
2. **A deferred transient cannot be retried** (`transient_retry`). `source()`
   admits a checkpoint with `failure` `RATE_LIMIT` or `SOURCE_UNAVAILABLE`;
   `Ledger.intent` refuses any item with a checkpoint. The safety side of this is
   `AtMostOneSourceCall`, which holds; the retry branch is dead.
3. **A failure receipt buries a verified read-back** (`buried_readback`).
   `fail()` replaces the checkpoint, so an attempt after it does not see
   `SUPPORTED_FACTS_VERIFIED` and writes again. It takes three attempts; with the default
   two, `AtMostOneCommit` holds.

Further disagreements between code and text met while modelling. The property named
states what the text says and is defined in the component's properties; it fails at the
constants of the part in brackets, with the change given there. The runs above leave
these properties out, so that each asks what the code does keep.

| Property (module) | Setting | What the code does and what the text says |
|---|---|---|
| `OnePayer` (`EvaluationProperties`), without its two exceptions | the run `policy` | `app/policy/agent_evaluation_persistence.py:439`: A claim is expired after CLAIM_EXPIRY_MINUTES by its age alone, and the provider call has no timeout of its own (acquisition_evaluate.py:310), so an evaluation that outlasts the expiry is reclaimed and paid a second time while the first is still running. src/app/db/models.py:3412 says "so two concurrent workers can never both pay for the same evaluation". The property names the two exceptions, a worker that outlasts the expiry and one that settled after doing so; with them it holds and is proved. |
| `PaidResultIsRecorded` (`EvaluationProperties`) | two workers, two fingerprints | `app/policy/agent_evaluation_persistence.py:565`: Two workers that evaluated different fingerprints of the same mandate, subject and type both read no current row and both insert one; the second violates its unique key, the IntegrityError leaves record_evaluation_outcome and the whole transaction is undone: the paid evaluation has no history row and its claim stays claimed. src/app/db/models.py:3246 says of the history "Never mutated after insert - one row per attempt". |
| `LastAttemptIsOneAttempt` (`EvaluationProperties`) | two workers, three fingerprints | `app/policy/agent_evaluation_persistence.py:576`: The ORM writes only the columns whose value differs from the one the session loaded, so two recorders that both loaded the same row combine: one sets last_attempt_status, the other, whose result equals what it had loaded, leaves the status of the first beside its own timestamp and opportunity. src/app/db/models.py:3388 says of the column "the MOST RECENT attempt's own outcome". |
| `PositionKeepsItsFingerprint` (`EvaluationProperties`) | two workers, two fingerprints, one forced retake | `app/policy/agent_evaluation_persistence.py:580`: A forced re-evaluation of the fingerprint that is current does not change the loaded current_evaluation_fingerprint, so its UPDATE leaves that column to a concurrent recorder of another fingerprint while it sets current_history_id to its own row: the two columns end up about different evaluations. src/app/db/models.py:3376 calls the column "Denormalised copy of current_history_id's own evaluation_input_fingerprint". |
| `FreshWasReassessed` (`MandateProperties`), read for all `Mandates` instead of `HadB1` | one mandate without B1 fields, one operator, two policy versions | `app/policy/buyer_profile_store.py:436`: seed_default_buyer_profiles, which every bootstrap runs first, re-stamps the fingerprint of an onboarded mandate without B1 fields under the policy version of the code that runs; if that version was raised since the mandate was onboarded, the mandate is no longer stale although nothing reassessed it, and the same bootstrap skips it. src/app/policy/buyer_profile_store.py:164 says a version change "requires a real, controlled reassessment - never a silent fingerprint rewrite". |
| `RestoreFromPostState` (`MandateProperties`) | one mandate, two operators, two policy versions | `app/policy/mandate_reonboarding_rollback.py:120`: apply_mandate_reonboarding_rollback compares the live mandates in _compute and then writes through the session by primary key, with no lock and no condition: a bootstrap or a second re-onboarding that commits in between is overwritten. src/app/policy/mandate_reonboarding_rollback.py:7-8 says it "re-reads the live mandates and REFUSES unless every one is still exactly in the expected post-transition state". |
| `OnlyAcceptedIsFlagged` (`RelationshipProperties`) | one allocation, rejected by the cleanup, a document that contradicts it | `app/policy/allocation_evidence_scan.py:313`: The contradiction branch skips only rows that already need confirmation, so a relationship that was rejected becomes needs_confirmation again: the rejection, the strongest form of the same contradiction, is undone. src/app/policy/allocation_evidence_scan.py:302 says "contradiction against an ALREADY-ACCEPTED relationship", and lines 92-94 "ONLY when new evidence explicitly contradicts that specific accepted relationship". |
| `ScannedEvidenceHasRow` (`RelationshipProperties`) | two Sites, two documents of one batch with explicit evidence, the first fails | `app/policy/allocation_evidence_scan.py:368`: A relationship created for a document that then fails is rolled back in the database but stays in relationships_by_allocation; a later document of the batch with the same explicit evidence is skipped at line 344 and marked scanned, so no relationship exists for its evidence, unless the failed document succeeds on a later run. src/app/policy/allocation_evidence_scan.py:418-419 says "a partially-applied write from a failed document must never leak into the next document's processing". |
| `PointerIsAccepted` (`RelationshipProperties`) | a document that contradicts, beside the batch | `app/policy/allocation_site_relationships.py:400`: The pointer is set from the plan's own review_status even when create_relationship_if_absent found the row already there: a scan that meanwhile flagged that row needs_confirmation does not keep the allocation from being pointed at the Site. src/app/policy/allocation_site_relationships.py:396-399 says such a candidate "must never be promoted to THE Site for this allocation before a human has actually confirmed it". |
| `DeclinedStaysDeclined` (`RelationshipProperties`) | one human review, then the batch | `app/policy/allocation_site_relationships.py:402`: reject_site_match clears matched_site_id, which makes the allocation one of those the batch plans for; the batch never reads review_status, so it points the allocation at the very Site that was declined. src/app/policy/site_match_review.py:57-60 says the status stays rejected "so a future matching pass can see this allocation already had its obvious candidate looked at and declined". |
| `MissingIsStillWanted` (`EvidencePipelineProperties`) | a decision notice and a planning statement, one outage | `app/pipeline/run_weekly.py:1467`: The stamp is set when every row of the categories this call wanted succeeded; a targeted evidence refresh that wants one category therefore stamps an application whose routine pass left a document of another category missing, which is never tried again. src/app/db/models.py:1556 says "the application remains eligible for the very next Daily Discovery run to retry ONLY the still-missing document(s)". |
| `FoundIsHandedOver` (`EvidencePipelineProperties`) | two related applications, one outage | `app/pipeline/evidence_refresh.py:448`: A refresh that stores a document and then fails on another stays required, but its documents are known when the next refresh completes, which then answers checked_no_new_evidence: material_evidence_changed_at is never set for them. src/app/pipeline/evidence_refresh.py:333 says of an incomplete pass's evidence "DO NOT lose it". |
| `HandoffIsRead` (`EvidencePipelineProperties`) | two reasons, two changes | `app/extraction/intelligence_refresh.py:893`: The depth is taken from the reasons of the newest request and the watermark advances to the newest evidence, so evidence an earlier request found counts as processed without having been read. src/app/extraction/intelligence_refresh.py:79 says the depth "never gates which evidence categories the refresh is allowed to look at". |
| `RequirementIsNotLost` (`EvidencePipelineProperties`) | two reasons, two changes, one outage | `app/pipeline/run_weekly.py:439`: A new material change replaces the reasons of a request that was never answered, so the categories of the earlier change are not looked for. src/app/pipeline/evidence_refresh.py:65 says "never lose a refresh requirement just because a refresh attempt failed". |
| `UnextractableHasNoText` (`EvidencePipelineProperties`) | two readable documents | `app/pipeline/run_weekly.py:1830`: An application without usable text is recorded no_usable_text and left out of every later extraction; when its documents arrive the next day nothing resets the outcome. src/app/db/models.py:1517 calls the excluded ones permanently unextractable and tests/test_ai_processing_reliability.py:177 says the state must not be a dead end. |
| `RequestsAreAnswered` (`EvidencePipelineProperties`) | two applications, one without URL, `RefreshLimit` 1 | `app/pipeline/evidence_refresh.py:235`: The bounded selection takes the newest requests; those that cannot be answered stay newest and required, so as many of them as the limit keep older requests out for ever. src/app/pipeline/evidence_refresh.py:80 says of an unanswered request that "the very next Daily Discovery run's own bounded selection retries it". |
| `SuccessIsTruthful` (`CouncilRunProperties`), read for details and downloads too | the run `councils` | `app/scrapers/idox_portal.py:486`: The failure of one application's detail page is swallowed and the month still succeeds; a failed download (run_weekly.py:1357) leaves the stamp off and reaches no counter. src/app/pipeline/acquisition_health.py:182 says of SUCCESS "every attempted core supporting acquisition operation ultimately succeeded"; its lines 105-114 exempt the download as a known gap, and nothing exempts the detail page. The property as checked is about the work that counts, and about the stamp. |
| `OpensOnAStreak` (`CouncilRunProperties`), read without `forgiven` | the run `councils` | `app/pipeline/run_weekly.py:2599`: A month that is scraped never calls record_success, so the failures of three months with successful months between them open the circuit. src/app/pipeline/portal_circuit_breaker.py:158 says "3 consecutive failures", not "3 failures accumulated anywhere during a long run". |
| `ListedFilingIsRetried` (`CouncilRunProperties`) | one outage | `app/pipeline/run_weekly.py:785`: The anchor is stamped as searched as soon as its search answered; when the fetch of a listed filing then fails, or the circuit opens before it, the filing waits for the cooldown. src/app/pipeline/run_weekly.py:777 says "transient portal error should be retried next run, not suppressed for 30 days". |
| `UndeterminedWasRead` (`CouncilRunProperties`) | an application with two papers, one outage | `app/pipeline/run_weekly.py:1107`: A paper that could not be downloaded counts as checked: the application becomes undetermined, which leaves stage_confirm_units and the unit gate for good, though nothing was read. src/app/pipeline/run_weekly.py:1109 reports "no unit count found in" that paper. |
| `HistoryReplays` (`VerificationProperties`) | one verifier and a scrape | `app/pipeline/run_weekly.py:381`: The upsert decides by the copy of the row its session selected and is not conditional: a verification that commits between that select and the flush is recorded a second time. src/app/db/models.py:1787 says an event is "Never written for a mere re-check that found nothing new". A scrape and a verification of one council overlap only when an operator's or an ingestion run meets the daily one. |
| `DateBelongsToDecision` (`VerificationProperties`) | one verifier and a scrape, a page with an undated refusal | `app/pipeline/run_weekly.py:399`: A scrape writes what the page states and nothing else, so a new decision without a date keeps the date of the decision before; the row is decided, so no verification repairs it. src/app/pipeline/status_verification.py:839 says "A changed terminal outcome cannot borrow the prior decision's date". |
| `NoneIsStarved` (`VerificationRota`) | tiers 1 and 4, one application that can not be verified | `app/pipeline/status_verification.py:333`: The reserved place goes to the never verified application of the lowest id; one that can not be verified keeps it. Discovery rows (discovery_pending) are such: they are selected and refused at once at status_verification.py:683. src/app/pipeline/status_verification.py:269 says the reserved place "guarantees a Tier 3/4 backlog is never permanently starved behind a large Tier 1/2 population". |
| `LeftOutForItsOwnError` (`DailyCouncils`) | two councils, one database error | `scripts/run_daily_councils.py:481`: The handler in main goes on with the same session and never calls rollback(): after a statement that failed inside a transaction every later council fails at its first count and is not run. src/scripts/run_daily_councils.py:480 says "one council's bookkeeping failure must not stop the rest", and :19 "the loop always continues to the next council". |
| `AcknowledgedPersists` (`DocumentJob`) | one file, a deadline, no deaths | `app/security/document_process.py:348`: The custodian reads the pipe, then the clock: a commit acknowledged in between is undone, the receipt says rolled_back, and wait_custodian accepts that, so the job reports success. src/verification/stage1_document_cleanup_check.py:94 asserts "Acknowledged outputs must persist". With the directory gone the parent's own test of the abort marker passes too (document_process.py:630). |
| `FailedMeansOld` (`DocumentJob`) | one file, no faults | `app/security/document_process.py:346`: The parent acknowledges and removes the directory after the custodian's read and before its test of the directory: the commit counts as unacknowledged and the job reports a failure, though its outputs are in place. src/app/security/document_process.py:333 says "Consume the authenticated private pipe before testing directory absence." |
| `PendingIsUndone` (`DocumentJob`) | two files, a deadline | `app/security/document_process.py:299`: rmtree removes the abort marker and the lock file before the directory: a parent in save_download opens a new lock file, passes check() and replaces another output; a backup that is gone then ends its rollback before that output. src/specifications/020-stage1-access-command-boundary.md:429 says "An abort marker plus a bounded output lock excludes parent writes during rollback." |
| `PendingIsUndone` (`DocumentJob`) | one file, a deadline, slow copies | `app/security/document_process.py:573`: A rollback that outlasts five seconds meets two limits, the parent's output_lock and collect_custodian: the parent removes the directory with the backups and kills the custodian in mid-copy. src/specifications/020-stage1-access-command-boundary.md:406 says "Pending output replacements/partial files are restored or removed". |
| `EveryoneLinked` (`SiteLinking`) | four filings, one address twice, one operator | `app/pipeline/site_linking.py:247`: reject_suggested_link creates a Site without looking its address up, and the first matching of the next filing at an address with two Sites raises MultipleResultsFound: the whole stage rolls back, in every later run. src/app/pipeline/run_weekly.py:2624 says "DB-only - no portal network call, so this always runs". |
| `ParentWithItsScheme` (`SiteLinking`) | parent, phase and a neighbour | `app/pipeline/site_linking.py:174`: A cited parent that awaits review has no Site, so the citing phase creates its own, and neither answer to the suggestion joins the two. src/app/pipeline/site_linking.py:186 says of the reverse direction "without this, the parent gets its own separate site instead of joining the scheme it's actually part of". |
| `SameAddressTogether` (`SiteLinking`) | four filings, a citation, no similarity | `app/pipeline/site_linking.py:157`: Only the address of the first filing of a Site is matched: a filing linked by its citation leaves its own address unknown. src/app/pipeline/site_linking.py:9 says "exact_address     - normalised address strings match exactly -> auto-link". |
| `LinkStands` (`SiteLinking`), read without its exception for overtaken answers | the run `sites` | `app/pipeline/site_linking.py:236`: Confirm writes the suggestion it loaded over the Site another operator has just created by rejecting it. src/app/ui/pages/2_Review_Site_Links.py:53 says "confirm if they're the same site or reject to keep them separate." |
| `MergedStaysEmpty` (`SiteLinking`) | three filings, one relinking | `app/services/ui_commands.py:43`: relink_site_applications moves the applications and keeps the Site, whose address goes on matching. src/app/ui/common.py:607 says "Correct it here rather than leaving a wrong entry in the results." |
| `NoSilentChange` (`OpportunityMonitoring`), read without `slipped` | the run `positions` | `app/reporting/v8_monitoring_rebaseline.py:116`: apply_rebaseline compares the digest, then the engine builds the universe again and writes whatever it finds: a change in between becomes the known state unreported. src/app/reporting/v8_monitoring_rebaseline.py:13 says "(a genuine evidence change coincides with v8): it is listed under ``blockers`` and apply is REFUSED". |
| `RestoresItsOwn` (`OpportunityMonitoring`) | the run `positions` | `app/reporting/v8_monitoring_rollback.py:102`: apply_restore writes rows by id without the state it has checked. src/app/reporting/v8_monitoring_rollback.py:8 says "an intervening ordinary sync, a manual edit or a partial earlier restore refuses rather than being overwritten." |
| `ReportStays` (`OpportunityMonitoring`) | the run `positions` | `app/reporting/opportunity_change.py:345`: Two passes may overlap: the daily run and the sync of the Monday job or of bootstrap are separate processes. src/app/pipeline/run_weekly.py:2807 says "Safe against concurrent runs" and, line 2810, "most one council's run ever calls this at once". |
| `SeenEveryPass` (`OpportunityMonitoring`) | `MaxPasses` 2 | `app/reporting/opportunity_change.py:344`: The pass assigns the same values to an unchanged row, so no UPDATE is issued and onupdate does not run. src/app/db/models.py:2973 says of it "which advances on every" (2974) "routine scan regardless of whether anything changed". |
| `UndatedPhaseIsUnknown` (`PlanningPosition`) | two phases, one amended | `app/pipeline/phase_tracking.py:85`: derive_acquisition_phasing_evidence says at src/app/reporting/acquisition_phasing.py:50 of a granted phase "an undated / unparseable operative decision date (lapse status `unknown`) -> currentness UNKNOWN"; compute_phase_progress, which it calls first, hands the missing date to find_progress_signal_filing, whose comparison of a day with None raises a TypeError as soon as the phase has a variation, an amendment or details of conditions (src/app/pipeline/lapse_tracking.py:143). src/tests/test_acquisition_phasing.py:74 covers the undated phase without such a filing. |
| `SpanningIsWholeSite` (`PlanningPosition`) | two phases and an application for both | `app/reporting/scheme_reconciliation.py:1127`: The docstring of _resolve_scopes says at src/app/reporting/scheme_reconciliation.py:1108 "an application naming several peer scopes at once is WHOLE_SITE (it spans them)"; the code gives it the scope multiple_scopes, which _site_scope_rows leaves out, so that a permission for all named phases is neither the consented reference nor counted. |
| `ProposalKeepsConsent` (`PlanningPosition`) | plots named, totals 5 and 12 | `app/reporting/scheme_reconciliation.py:1112`: The module docstring says at src/app/reporting/scheme_reconciliation.py:59 "The consented position is computed independently" of the active positions; the scopes it is computed on are not: a live proposal that states ten or more homes for a plot promotes the plot to a scope of its own, and the permission already granted for that plot leaves the rows the consented position is computed from. |
| `RestatedPositionStands` (`AffordablePosition`) | five documents | `app/extraction/intelligence_refresh.py:274`: The docstring of guard_legally_secured_position says at src/app/extraction/intelligence_refresh.py:261 that without an S106 or a decision notice "a lower-authority document ... can never downgrade or contradict" a secured position; when the answer says legally_secured again the guard returns it unchanged: its percentage and homes replace the secured ones, and without the full-security flag the next guard lowers the label as well. |
| `ReassertionStands` (`AffordablePosition`) | five documents | `app/extraction/intelligence_refresh.py:288`: The comment at src/app/extraction/intelligence_refresh.py:283 says of the flag the guard sets "Without this, guard_mixed_legal_security_position below (which reads this same flag) would immediately undo this guard's own protection"; with it the next guard still undoes it whenever the text holds a mixed-security phrase, which a planning statement can. src/tests/test_evidence_driven_intelligence_refresh.py:1804 covers only a text without one. |
| `ConditionedIsNotDenied` (`AffordablePosition`) | five documents | `app/extraction/intelligence_refresh.py:1000`: The comment at src/app/extraction/intelligence_refresh.py:997 says "a "conditioned" status must not survive when the model's own notes explicitly say no affordable housing is proposed"; the guard reads the notes of the new answer, and an answer with null notes keeps the stored denial beside its "conditioned" (line 1033). |
| `AuthorityReadFirst` (`AffordablePosition`) | `Budget` 4 | `app/extraction/intelligence_refresh.py:952`: The prompt says at src/app/extraction/intelligence_refresh.py:818 "the NEW EVIDENCE TEXT below is ordered from highest to lowest legal/evidential authority", which select_refresh_evidence_documents sorts for; build_combined_priority_text sorts again by PRIORITY_ORDER, where planning_statement is before decision_notice and s106 is last, so that the size limit cuts the S106 first. |
| `CandidateHasText` (`HistoricalRebuild`) | two applications, one with a reason | `app/extraction/intelligence_refresh.py:947`: The docstring of _family_has_usable_evidence says at src/app/extraction/historical_rebuild.py:167 that BROAD is "the exact function/depth B3 itself would call for a historical row"; the refresh takes the depth of evidence_refresh_reason, which is never cleared, so that a candidate with a reason can end as no_usable_text in every batch, and one left alone keeps the job going until max_batches_exceeded. |

`run_weekly.py:1919` says of the scan stage that it never creates a relationship; it
does (`allocation_evidence_scan.py:344` ff.), and the models follow the code.

## 5. Proofs

A theorem holds for every value of the constants that satisfies the assumptions named in
it: any keys, owners, workers, mandates, documents, applications, requests and bounds. The
assumptions on constants are the code's own input checks or say what kind of value a
constant is, and TLC evaluates them in the runs. One hypothesis is more than that:
`WrittenAtMostOnce` takes items of at most two attempts, the default of `enqueue`, and
finding 3 shows what happens with three.

| Module | Theorems | From |
|---|---|---|
| `LedgerProofs` | `TypeCorrect`, `EffectsAccounted`, `OneWriter`, `SourceCalledAtMostOnce`, `UnknownWritesGuarded`, `WritesPaid` | `EffectInv` |
| | `LeasesAccounted`, `OpenAttemptsAreLeases`, `EveryAttemptAccounted`, `DependenciesStayComplete`, `NoDependencyCycle` | `LeaseInv` |
| | `TerminalStaysFinal`, `ClosedAttemptsStay`, `IntentsPaid`, `StopIsFinal`, `CooldownsHonoured`, `AllowancesShrink` | both |
| | `LedgerImplementsAuthority`: `Ledger` implements `WorkAuthority` | both |
| `CoordinatorProofs` | `MethodsKeepTogether`, `CompleteScopesHaveChildren`, `ReceiptsPrecedeChildren` | `CoordinatorInv` |
| | `OpenCallsEndAccounted` | `CoordinatorInv` with `EffectInv` and `CallsAreOfScopes` |
| | `CoordinatorKeepsLedger`, by way of `CoordinatorImplementsLedger`: every ledger theorem is one of the coordinator | `CoordinatorInv` |
| | `WrittenAtMostOnce`, with at most two attempts an item | `CoordinatorInv`, `CommitInv` |
| `PolicyProofs` | `PayersHoldClaims`, `OnePayerPerEvaluation`, `RecordsAgree`, `SettledAtMostOnce`, `ClaimsNameTheirHistory` | `PayerInv`, `RecordInv` |
| | `MandatesTyped`, `FreshIsReassessed`, `AppliedWasReviewed` | `HonestEverywhere`, `AppliersHoldReviewed` |
| | `RelationTypesHold`, `OneRowEach`, `CleanupNeverOverwrites`, `CollisionsNeedEvidence` | `RelationInv` |
| | `LinksKeepTogether`, `CommittedLinksStand` | `LinkInv` |
| `PositionProofs` | `PositionTyped`, `SecurityHasAnOrigin`, `PercentageStays` | the guards of one refresh |
| | `MonitoringKeepsTogether`, `ChangesAreTold` | `MonitoringInv` |
| | `SiteTyped`, `SiteAddsUp` | an order by date, receipt and number (`LatestExists`) |
| | `AncillaryStaysInert`, `TimeErodesOnly` | what a step keeps of the carriers (`CarriersKept`), what a day keeps |
| `CouncilProofs` | `CouncilTyped`, `SuccessMissesNoCountedWork`, `CircuitsOpenOnAStreak` | `CouncilInv`, `CountIsAStreak` |
| | `ExitZeroIsHealthy`, of the daily job | `DailyInv` |
| `RecoveryProofs` | `AdmissionKeepsTogether`, `AdmittedHasFacts` | `IdentityInv` |
| | `RebuildCompletesAndPaysForLosses` | `RebuildInv` |
| | `JobKeepsTogether`, `OutputsAllOrNothing` | `JobInv` |
| `VerificationProofs` | `VerifiedIsNotOlder`, `EventsReplay` | `VerificationInv` |
| `EvidenceProofs` | `EvidenceTypesHold`, `AnOpenCircuitIsIncomplete`, `AClearedRequestWasChecked` | `AcquisitionInv` |
| | `WhatEveryReasonWantsIsWanted` | `AcquisitionInv` |
| | `WhatEveryReasonReadsIsRead` | `HandoverInv` |

**Ledger.** None of the safety properties is inductive. `SingleWriter` needs that an
unsettled intent belongs to a lease or to a blocked item (`IntentsAreHeld`): otherwise
a deferred item in `WRITE_INTENT` could be leased to a second phase.
`AtMostOneSourceCall` needs to know where the first call left its trace, a
receipt, an unsettled intent or a blocked item (`SourceCallLeavesATrace`).
`UnknownWriteIsGuarded` and `WritesArePaid` need to know that a live write intent
either still has its payment or has raised, in which case its claim is
`uncertain` (`WriterAccounts`). `EffectInv` is their conjunction, and
`TypeOK /\ EffectInv` is preserved by every action: there is one lemma per
action, over lemmas on the two table updates (`PutRowFrame`, `RecordEffects`),
on the ownership test (`CurrentIsLive`, `UsableFacts`) and on steps that leave
rows alone (`QuietStepEffects`).

`LeaseInv` relates the three counts of a lease: the fence of the work row, its tries,
and the attempt rows filed at or below the fence; and it says that whatever an item
depends on was there when it was enqueued, which is why no cycle can arise. The step
theorems need no induction of their own: each follows from the invariants at the step.
The refinement maps a ledger row to the holder and the effects of an abstract item; each
method maps to one abstract step or to none.

**Coordinator.** Each of its steps is a ledger action with the held claim, or leaves the
ledger's variables alone, so the ledger's invariants come for free
(`CoordinatorImplementsLedger`) once the arguments are known to be ones that the ledger
takes: `ClaimsAreIssued` and `RowsWereRequested`. `CompleteScopeHasChildren` spans many transactions,
any of which may be the last of its worker; what carries it is the worker's own list: all
children not on it exist (`ChildrenInHand`), rows never disappear, and the scope's
receipt stays the listing while the claim is current (`ReceiptsInHand`).
`OpenCallEndsAccounted` is split by who ends the call: its worker, through a ledger call that
carries a receipt or a stop (`CallsAccounted`), or recovery, which may find it abandoned after
the stop of a raising read raised itself. Only scopes make calls (`CallsAreOfScopes`), so that no
method for another kind of item meets one open.
`AtMostOneCommit` needs the history of a written item: it is final, at the barrier, has
its read-back, or has no lease left (`WriteIsSettled`), and the worker that holds it meets
the read-back before the writer (`PastTheWrite`). The third attempt of finding 3 breaks
exactly the last of these, hence the hypothesis.

**New identity.** `BareIsHeld` is the heart: a pending identity without facts is in the
hands of the one worker that admitted it, or at the barrier it left, until everything
stops. It needs that fences are unique (`FencesAreUnique`), that whoever is in the writer is
current and at the barrier (`WriterHoldsBarrier`), and that what a worker has seen or
written of the application is not undone by the scrape beside it (`SeenStays`).

**Historical rebuild.** An answer that was paid for is marked, in the hands of the process, or
counted as lost (`PaidIsMarked`): the marker is part of the commit that stores it, so there is no
fourth case, also when the acknowledgement is lost. That an application is paid for twice is possible,
and the run reaches it; what holds is that it takes a loss each time. The candidates of a batch are
unmarked until their turn. A job may say that it is completed after
an empty batch, so an empty batch must find nothing left (`BatchIsOfTheRest`): the least of
the applications still to do is always in it, by the same theorem on minima as below. That it gives
up on more than one failure rests on the constants (one in five of five or more is one too few) and,
for a batch without progress, on `SuccessIsProgress`. All the rules of the job are reached.

**Document job.** `OutputsAreAllOrNothing` has three parts. Two hold whoever dies and whatever times
out: a commit that the custodian has read is kept (`CommitHolds`), because from then on nothing
restores; and a job that ends well leaves nothing (`PartialHolds`), because a
partial file outlives only a dead parent, together with the directory, the journal and the lock
file, and no custodian ends well beside a directory. The third, that outputs nobody
acknowledged are undone, holds until the deadline and while one of the two processes was not
killed: until then the custodian acts for a dead parent only, and whoever undoes finds
journal and backups complete (`UndoHolds`). Past the deadline it does not hold: section 4 has two
ways. All three need to know who may hold the lock. A removal unlinks the lock file, after which two
processes may each hold a lock of that name; `LockHolds` says that until then, and while the
parent may still ask for it, the custodian that undoes or removes has it.

**Evaluations and mandates.** `PayerInv` says that a worker between taking a claim and
recording its outcome holds a claim row whose age equals its own, which nobody may reclaim
before the expiry; it says so of a worker that is in time (`InTime`), since one that outlasts
the expiry may have lost its row, and when it records it takes the row from whoever holds it.
`RecordInv` says that history rows, settled claims and forced retakes agree in number, where no
worker was late; that a settled claim names a row of its own fingerprint holds in any case. For mandates the invariant has to speak of every copy: a baseline is
honest, counted under the rules and version its fingerprint names, in the table, in what
each operator has loaded and in what is kept for a rollback (`HonestEverywhere`), because
a stale copy may be written back at any time. That only reviewed plans are applied holds by the digest
that the command compares; the rows it then writes are those it loaded
(`AppliersHoldReviewed`).

**Relationships.** Between the cleanup's revalidation and its write other writers work on the
same rows; `CleanupHolds` says that none of them turns the row in its hand into a decided one.
What a batch may accept was settled when it planned: `PlanIsGuarded` says that of two candidates
planned for one Site on documents, one that is accepted has explicit evidence of its own, and the
rows the batch inserts are those of its plan (`OfThePlan`). A plan chooses, among the
candidates of an allocation, one of the greatest weight; that there is one, of any finite number of
documents, is an induction over the naturals, which is had here by way of the library's
theorem on minima of well-founded relations (`LeastNatural`, `Heaviest`), the induction theorem
itself being out of reach.

**Site consolidation.** A link can be overwritten by the stage, which takes rows that it selected
at its start, or by an operator, who answers what the page had loaded. `LinkInv` says three things.
The rows the stage has selected or written are still unlinked in the database (`WellStaged`): nobody
else places an unlinked row, and the stage is the only one of its kind, so that its commit overwrites
nothing. A suggestion an operator has in hand still waits, unless another has answered it since
(`WellClicked`): that is the exception of `LinkStands`, and section 4 shows what such an answer does.
And a committed link leads to a Site that stays (`WellLinked`, `Committed`), since a rollback
removes only Sites to which no committed row can point. Which application cites which and what is near is arbitrary
in the proof, and so is which tier answers (`EveryTierPlaces`).

**Positions and monitoring.** The four guards are analysed by the answer they get: whatever
the model says, "secured" survives only with a securing document of authority in the
evidence, or was there before. In monitoring passes may overlap each other and every command. A pass
writes a column only where it differs from what it had loaded, and reports what it classifies as
changed in the same commit, so that a row it leaves as it found it holds what was known before; that rows
never disappear (`LoadedStays`) rules out the rest. The rebaseline's plan and its rollback carry evidence that
was known when it was planned (`EntriesKeepFacts`), and a command writes what it has read
(`ChangeIsRead`): known, or slipped in after the digest was checked.

**Council run.** Before `classify` reads the health at the end, `MissesShow` says that whatever was failed or
skipped of what the health counts shows in one of its counters, in the circuit or in a scrape not completed;
`PrimaryIsFirst`, that nothing is missed before the first month was tried. A download shows in
none of them; what stands for it is the stamp, which `StampsStand` keeps off while a paper is
missing, also when the circuit opens among the downloads of one application. For the circuit,
`CountIsAStreak` compares its count with the histories: `streak`, and what the scrape's unrecorded
successes have forgiven, over any number of months. For the daily job,
`DailyInv` says that a council is counted once, under the status of its row, and after all
before it (`CountsAreRows`, `CountsAreBehind`); counts of healthy councils that add up to the
number of councils then leave no council out.

**Status verification.** A verifier compares the row with the copy it read before the fetch.
That the comparison is enough is `PriorsAreDated`: every write leaves a stamp later than any
that a verifier in flight has seen, so a row that looks as it did has not been written since,
not even back to the same facts. Without the stamps a fact could be replaced and restored in
between. `HistoryReplays` is inductive beside the types: a verifier writes over the very row
it compared, so its event begins where the last one ended; and the one change that is not
recorded, from a formal outcome back to pending, is one it never makes, because evidence of
a formal outcome never leaves a row pending (`OutcomeIsNotPending`). A scrape has neither
property, hence `~scraped`.

**Evidence pipeline.** That a request ends only by a complete check of every category and every member
of the family is a statement about a whole run of the refresh, of which the step that clears
the request is the last. `AcquisitionInv` carries it there. `PassHolds` is about the pass at
work: while it counts as complete, the circuit is closed and all that the register listed at
the start, or an earlier pass failed to get, is stored or among its rows. `FamilyHolds` is
about the members already done: as long as only clearing outcomes were met each of them was
`Reached`, with nothing wanted of it left out. `QueueHolds` says that what a stage still has in
hand is eligible for it. A document
some pass failed to get stays wanted (`WhatEveryReasonWantsIsWanted`), because a pass that counts
as complete has all of its categories, and a request ends only when every member was reached; a
document outside the categories of a targeted pass is in neither, so that such a pass may put
the stamp on its application: `InEveryScope` names the documents of which it can be said, and
section 4 (`MissingIsStillWanted`) what becomes of the others.

`HandoverInv` relates three clocks: the stamp of the newest evidence, the watermark of what was
processed, and the stamp the job's session loaded. Where the last is still the newest, the
session holds all that was handed over (`SessionHolds`), so that advancing the watermark to it passes over
nothing but what the depth of the newest reason does not read; a stamp that is newer leaves the
watermark behind it (`WatermarkHolds`) and the application selected.

**Planning position.** Its state is only shapes, so the work is in the operators. Of finitely many
applications one is the latest, by decision, receipt and number (`LatestExists`, from the
well-foundedness of the strict subsets of a finite set: the applications later than a given
one), and only one: hence a newest permission that nothing replaces, however citations run in
circles. A number is exact only if it is the one value of a finite set (`ExactAgrees`), which
carries agreement through every level that hands it on (`RowsAgree`). `AncillaryStaysInert`
follows the code from the rows to the answers: a step that keeps the carriers (`CarriersKept`)
keeps who is eligible, current and live, the figures of every set with the same carriers, hence
which plots are parcels and the scope of each application (`SameScopes`), hence the rows of the site and
all that is told of them.

**Only model-checked**: `VerificationRota`, whose one property, that no candidate is starved, is
liveness. So is all other liveness: that jobs end, that requests are answered and handed over,
that filings are found and linked, that a source call is settled at all. It is proved nowhere: liveness
under fairness is beyond the prover, as are `ENABLED` and what a recursive definition or a fold
computes: nothing that is proved of the rebuild rests on how the failures in a row are counted, and nothing
of the phases on the value of a sum.

## 6. What is left

1. `Dispatch`: `claim_next`, its priority scan and the claims that race it.
2. The weekly run as a composition of `CouncilRun`, `StatusVerification` and `SiteLinking`
   over one application, in place of models that share only its columns.

## 7. Not modelled

- **Parsing, validation and text classification** of source records and documents; the
  listing adapters, the discovery contract and its acceptance: pure functions without state.
  Where a model needs their answer it is a constant or any admissible value.
- **Scrapers and browser I/O**: a call answers, fails with the host, or fails otherwise. Of the
  scrapers only the loop over the applications of a month is modelled, in `CouncilRun`.
- **Capture batching**: serial plans over one captured listing, whose children are items of
  the ledger. **Observation and screening history**: projections over append-only items.
  **Worker interface**: a narrowing of claim and checkpoint.
- **SQL ledger client**: calls database functions that the repository designs but does not
  deploy; there is no code to hold a model against.
- **Reporting, search, interface, buyer matching and scoring**: read-only derivations, by far
  the largest part of the source. Of it only the planning position is modelled, because its
  inputs arrive in any order and later filings reach back to earlier ones.
- **Operations scripts, migrations, benchmarks and acceptance harnesses.**
- In modelled components: `retained_capture` and the form probe of the coordinator, the
  32 MiB ceiling of the ledger, `_verify_initial_status`, the relay and sampling of the
  guardian, login leases, unit mix and specialist accommodation, unclear scopes and
  unparseable dates, the warnings the rebuild prints.
