# ConstructionSight: a TLA+ model of its durable parts

ConstructionSight collects public construction records, keeps evidence of them,
and lets one operator turn them into leads, outreach, bids and results.  It runs
as a set of short-lived command-line processes and one local server over SQLite
files and a few files that are replaced atomically.  What is hard in it is not
arithmetic but order: several processes, each of which may die between two
commits, share databases and files that are made durable separately.  This
directory models that order, checks it with TLC, and proves theorems about ten of
its parts with TLAPS.

`PROJECT.json` is the index: components, runs, the source lines each definition
stands for, one mutated definition per property, findings, hazards, theorems.

## 1. Inventory

| Component | State it keeps | Operations | Talks to | Model |
|---|---|---|---|---|
| One-shot effect boundary (`effect_consumption.py`, its store and models) | table of reservations: status, digest, phase, retained result | reserve, mark started, commit success, commit failure, replay | every governed service wraps its effect in it | `EffectConsumption`, `EffectOnce` |
| Local operator authorization | none; decisions valid for a short window | build request, decide | the boundary checks window and binding | inside the modules of the boundary, the lead transition and the result authority |
| Lead workflow and governed transition | workflow row with event log; duplicate results | create, transition (compare and swap) | boundary (another database) | `LeadWorkflow`, `LeadTransition` |
| Result ledger and result authority | chain of revisions, head row, audit events | review, apply root or correction, audit | boundary, workflow | `ResultAuthority`, `RevisionLog` |
| Data folder, collection, schedule (`live_command_center.py`, `data_folder.py`, `collection_schedule.py`, runs of `lead_workflow.py`) | `active.json`, table `runs`, settings, schedule, location record, `capture.lock`, `capture_mutex` | collect (server thread, daily unit, manual), move, backup, restore, schedule | the evidence journal, SMARTS | `Collection` |
| SMARTS evidence journal and roster sweeps | journal of observations, versions, aliases; checkpoint of sweeps | record a row or a page, verify, start or resume a sweep | SMARTS, the checkpoint file | `SmartsJournal`, `SmartsRoster` |
| Command Center lead desk (`command_center_state.py`, `lead_watchlist.py`, `site_review.py`, `source_facts.py`, `scoring_learning.py`) | feedback, event log, outreach queue, controls, watches, facts, site verdicts, weights | one handler each, some in several transactions | collections replace the leads beneath it | `LeadDesk` |
| Command Center commercial records (`command_center_commercial.py`) | bid versions, contracts, ledger, catalog of scopes and prices | save a bid, derive a contract, add and reverse entries, edit the catalog | the lead desk | `Commercial` |
| Runtime artifact publication (`storage/runtime_artifacts.py`) | staged and published files | stage, link or replace, sync, reload | all evidence writers | `RuntimeArtifact` |
| Parcel source acquisition | probe rows, assessments, proof rows, bundle | probe, page through a layer, rehearse with checkpoint and retry, decide | an ArcGIS layer that its owner edits | `ParcelProbe`, `ParcelRehearsal` |
| Source registry apply (`source_registry_update_plan_cli.py`) | registry, backup, audit report, journal record, locks | apply, recover, complete, refuse | boundary, artifact publication, other editors | `RegistryApply` |
| Product integration | the first event of a workflow, the duplicate verdict | pure review, then one write | lead workflow | `LeadTransition` (what it persists) |
| Domain stores, watches and write plans (`storage/domain_store.py`, `storage/watch_change_store.py`, `operator_watchlist.py`, `ceqanet_persistence_execute.py`, the watch handlers of `operator_web.py`) | retained source records, the history of their changes, watches, alerts | apply a write plan in one transaction, add, archive and list watches | every importer and every thread of the operator's web server, on one SQLite file | `DomainStore` |
| SMARTS snapshot history, result shares, schema governance, CEQAnet discovery, HTTP, scoring, dashboards, parsers, map, command lines, certification | see `PROJECT.json` | | | not modelled, section 7 |

What makes each part correct, in one line:

* **Boundary.** The effect of an allowance runs at most once, whatever crashes;
  the row never lies about whether it ran; a caller is only given the durable
  outcome of its own operation.
* **Lead workflow.** The history is a lawful walk; one authorized, reviewed
  payload yields at most one event; the two databases agree after any crash.
* **Result authority.** Chain, head and events agree; no reader that is healthy
  sees a torn state; a retained report is a real revision.
* **Collection.** The newest published capture is what the table of runs says it
  is; a change of folder loses nothing that was acknowledged; no lock outlives
  its owner; every request ends.
* **Journal and sweeps.** The checkpoint never leads the evidence; one source
  per identifier; versions are the transitions of the observations.
* **Lead desk and commercial records.** Current state and event log tell one
  story even when a request stops between its transactions; what is shown as
  decided was decided about the row that is shown; totals follow standing entries.
* **Artifacts.** A name denotes no file or a whole one; what was reported stays.
* **Parcels.** A layer at rest passes; a reconciled list misses no more than was
  deleted; stored verdicts never contradict one another.
* **Domain stores.** The history explains how each record came to be what it is;
  whatever shows in a watch's columns shows in its document, unless somebody was
  overtaken; a change alerts the watches that were active.
* **Registry apply.** A report follows its registry; the original survives; any
  recorded apply can be completed; locks never close a circle.

Behaviours that are hard to test, each at its line, are listed under `hazards`
in `PROJECT.json`, with the properties that watch each.

## 2. Modules

Each module starts with the files it models; each action carries the name of the
function it stands for wherever it has one.  Operators called "Slip" in a comment
are plausible bugs of the definition that follows them; no specification uses
them, they exist to show that a property can fail.

* **EffectConsumption** is one call of `_execute_owned_effect` per executor, as a
  program counter and the call's locals, over the table.  Every store call is one
  transaction, so one step; a clock read is a step of its own, because up to 30
  seconds may pass while SQLite's lock is awaited.  Faults are actions: a crash
  at any step, a store call that raises before its commit (`StoreRaises`), and one
  that raises after it (`MarkUnacknowledged`, `SuccessUnacknowledged`).
* **EffectOnce** is what the boundary promises, with no processes or faults: an
  allowance is claimed, invoked at most once, closed or published, answered.
* **LeadWorkflow** is the transition matrix and status sets as constants.
  **LeadTransition** composes it with an `INSTANCE` of EffectConsumption: the
  effect is a second load of the workflow, the duplicate gate, and a compare and
  swap, each a step.  A payload is named by the number of events it has.  An
  allowance is one operator id's, for one reviewed payload and one target; which
  ids ask for what is chosen in the initial state (`Wishes`).
* **RevisionLog** is an append-only list of results that change at each step.
  **ResultAuthority** is the chain of revisions, the head row, the events and an
  auditor.  It uses the boundary by its promise (an `INSTANCE` of EffectOnce), so
  it relies on the refinement proved for EffectConsumption.  `made` remembers which
  operation made which revision, for the properties only: `Publish` may fail after the
  revision is durable, and `CallFails` then closes the allowance over it.
* **Collection** has one program counter per collecting process (the server's
  worker thread, the daily run, manual runs), the one handler that holds the
  server's `maintenance` lock, and per folder the data the properties tell apart.
  POST handlers that commit one transaction are one step (`PostNote`,
  `PostSource`); those that copy, rename and redirect folders are one step per
  file-system effect.  A behaviour carries a workload: its folders, processes,
  kinds of requests and of errors.  Folders that are still vacant are alike, so a
  move leads to a chosen one (`Targets`).  A manual or scheduled run records its success
  and prints its totals afterwards (`FinishRun`, `PrintTotals`); when its output is
  closed it records an error over it (`PrintFails`).
* **SmartsJournal** is recording as an operator from one journal to the next (the
  file is opened with `BEGIN IMMEDIATE`, so a page is recorded in one step) and
  `verify_smarts_journal` as a predicate.  **SmartsRoster** is the processes that
  fetch, record and advance the checkpoint, which is another file.
* **LeadDesk** has one request at a time (the server's `maintenance` lock
  serializes POSTs), which stops, or dies, between any two of its transactions;
  collections replace or drop the lead beneath it.  **Commercial** extends it with
  the bids, contracts, ledger and catalog, which read the lead desk's tables.  A
  behaviour carries a *workload*, the set of requests offered to it, chosen in
  the initial state.
* **RuntimeArtifact** separates what a directory shows (`dir`) from what would be
  left of it after a power loss (`kept`); publishers stage, link or replace, sync
  the directory, and report, one step per system call.
* **ParcelProbe** reads a layer's metadata, count and pages for a plan, which is a
  snapshot and a sample size; it stores one answer per request, and assessments of what
  is stored for the plan.  Plans over one snapshot share its count request, which names
  no sample size, and their pages if the sizes are the same (`SameRequest`).
  **ParcelRehearsal** extends it with the complete rehearsal, its checkpoint, injected
  failure and retries.  The layer's owner inserts and deletes records between any two
  requests.
* **RegistryApply** is `_apply`: take the locks of all files in one order, recover
  what an earlier apply left, reserve the allowance (the boundary by its promise,
  as two columns of the process), journal, backup, registry, audit, removal of the
  journal, report.  Each of these is a step with a volatile and a durable side;
  processes die, power is lost, and somebody else edits a file.
* **DomainStore** is one process or thread per import and per request of the web
  server, over tables they share.  What a session reads before its first write it
  reads outside of any transaction, which is how pysqlite begins them, and an
  update writes only the columns that changed; so a read, the wait for the write
  lock and the commit are separate steps, and the clock may move between them.
* **MC...** modules give symmetry sets, workloads, and small worlds.  **MCEvidence**
  puts RuntimeArtifact and SmartsRoster into one run; they share no state, and a
  behaviour is of one of the two, chosen in the initial state.

How they compose:

    EffectOnce  <--refines--  EffectConsumption  --INSTANCE in-->  LeadTransition --EXTENDS--> LeadWorkflow
        `----------INSTANCE in--> ResultAuthority  --refines-->  RevisionLog
    SmartsRoster --EXTENDS--> SmartsJournal         Commercial --EXTENDS--> LeadDesk
    ParcelRehearsal --EXTENDS--> ParcelProbe
    RegistryApply, RuntimeArtifact, Collection and DomainStore stand alone

## 3. Runs

Every run ends within about three minutes on two cores.

| Run | Question | Bounds and why they are enough |
|---|---|---|
| `effect` | is the effect run at most once, does the row tell the truth, is EffectOnce implemented, do rows settle | 2 executors, 1 allowance, 2 contents, 1 result: what a race and a mismatched duplicate need; `MaxFaults` 1, a crash or a failing call; `MaxClock` 2 with `DayLength` 2 and `Validity` 1 crosses midnight and an expiry; no symmetry, since liveness is checked |
| `lead` | lawful history, one move per allowance, agreement of two databases, and an inert limited workflow | 2 processes, 2 operator ids, `MaxEvents` 3 (away and back), three sets of wishes (one id back and forth; two ids wanting the same; two ids, one of them wanting readiness), every package and verdict; `MaxFaults` 1 counts deaths and failing calls of the boundary's store, while the effect itself may raise at any time |
| `lead_obsolete_review` | finding, see section 6 | 2 processes, 2 operator ids, 3 events, no fault |
| `result_authority` | is the chain linear and every reader satisfied, is RevisionLog implemented | 2 processes, 2 operator ids, new and legacy chains (`MaxLegacy` 1), `MaxRevision` 2: a root and a correction; three asks: one id wants one outcome for two reasons, another id another outcome |
| `collection` | do tables, `active.json` and locks agree while folders move, is anything acknowledged lost, do requests end | four workloads: two moves in a row over 3 folders with a manual process; one move with a manual process whose output may be closed (both with 3 rows: one interrupted, one in error, one success); the daily run with moves, the schedule's own requests and denials; the daily run with moves, restores and one note.  No symmetry, since liveness is checked |
| `collection_denial` | finding | one folder, one daily run |
| `evidence` | is every name whole and what was told kept; do journal and checkpoint agree under races, crashes and renumbered facilities | publication: 2 publishers, one create-only and one replaceable name, `MaxFiles` 3; sweeps: 2 sweepers, 1 lister, 2 sweeps, rosters of 1 and 2 targets, `MaxObservations` 3, `MaxChanges` 1 |
| `commercial` | do current state and logs of the lead desk and the commercial pages agree | one lead with two versions, 2 bids, `MaxLog` 3, `MaxSaves` 3, `MaxVersion` 2, `MaxEntries` 3 (entry, reversal, entry); workloads group the requests that touch the same tables |
| `parcel` | are verdicts right about layers that move | five workloads: 2 probes of one plan over at most 2 records; 2 probes of plans with sample sizes 1 and 2 over a record that may go, or over 2 that stay; 2 rehearsals over 5 object IDs with 3 edits; a probe and a rehearsal over 4.  `PageSize` 2 with records on both sides of a page, `MaxAttempts` 2 |
| `domain_store` | does the history explain the records, and do watches agree with their documents | 2 imports, 2 requests, 2 records, 3 plans of one and two operations; `MaxEvents` 4, so that two changes of different columns can overtake one another; `MaxClock` 1 tells an event from a watch that was added later |
| `registry` | is the apply transaction recoverable, are locks free of circles | 2 processes, 3 files in crossing roles, 5 workloads, `MaxEdits` 1, any failure, death or power loss |
| `registry_audit_first` | finding | the same world; a few steps of one process suffice |

Named bounds: `MaxClock`, `MaxFaults`, `MaxEvents`, `MaxLegacy`, `MaxRevision`,
`MaxObservations`, `MaxChanges`, `MaxLog`, `MaxSaves`, `MaxVersion`, `MaxEntries`,
`MaxFiles`, `MaxAttempts`, `MaxEdits`; in Collection a workload's `runs` (through
`Room`: collections start only while every table has room for all under way) and
`notes`, and one backup at a time.
Deadlock is checked for EffectConsumption; in the other modules the bounds make
the system stop, and operators may stop of their own.

Some properties are conjunctions of named parts, so that one run asks one
question: `ChainIsLinear` includes the agreement of events, `LocksHaveOwners` the
live runs of the tables and that the worker is in the server's folder, `JournalIsSound`
is `VerifierAccepts` and `OneSourcePerAlias`, `CheckpointHasEvidence` that one sweep is open at most,
`RecordsAgree` is `TotalsAreStanding`, `ContractsNameWonBids` and `CatalogAgrees`,
`ReviewsDecide` is `NewestDecisionShows` and `WeightsFollowReviews`.

Symmetry is used for interchangeable processes, contents and folders in runs of
safety properties; no definition orders them or chooses one by name.

**Fairness.** EffectConsumption's `FairSpec` is weak fairness of each executor's
next step: nothing in a call waits for another process (SQLite's lock has a
timeout, and a timeout is an exception, so a step).  `RowsSettle` says that a key
reserved without any fault becomes terminal: after a crash the row rightly stays
until it is adjudicated.  Collection's is weak fairness of the worker, of a change
of folder and of the schedule's write: sockets, SQLite and `systemctl` have
timeouts.  `collection` shows with it that a handler that waits for
`capture_mutex` without a timeout, which makes all other POSTs wait behind it,
waits no longer than the worker's collection.  Weak fairness does not ask the
operator, the timer or SMARTS to do anything.

## 4. What is proved

The theorems hold for every value of the constants: any number of processes,
allowances, contents, files, revisions, faults.  What they assume is named, and
TLC evaluates it in the runs.  Each module of proofs has the same shape: an
inductive invariant made of named parts, one lemma per action (or per kind of
step), a theorem per property that follows from it.

**EffectConsumption_proofs** (`ConsumptionConstants`, `NoneIsNoOperation`).
`EffectAtMostOnce`, `RowIsTruthful`, `EffectsOnTheirDay`, `AnswersDurable`,
`OwnersAgree`, `RowsAreFinal`, and `Refinement`: Spec implements EffectOnce.
"At most once" is not inductive.  That the effect has not yet run when
`BeginEffect` is enabled follows from the row being `effect_started` with this
executor as its only live owner, and that again from what a reservation inserts.
`IInv` therefore adds `RowShape` (a row exists exactly for claimed keys and has the
columns its status requires), `FrameShape` (a running call has its locals),
`SingleOwner` and `OwnerMatchesRow`.  `StepCases` sorts the steps by what they
write.  The type invariant, `AnswersAreDurable` and `RowsOnlyAdvance` are proved
and belong to no run: the refinement, which the run checks, implies what they say
of an outcome.

**LeadTransition_proofs** (`TransitionConstants`, `NoneIsNothing`).  Every step of a
transition is a step of the boundary (`TransitionIsOneShot`), so the lemmas proved
about it are used again rather than proved again.  `LogTyped`, `RequestsAreClear`,
`RunsPrecedeMoves` and `ResultsAreEvents` tie the boundary's table to the log;
from them follow `LawfulHistory`, `MovesOnce`, `LimitedInert` and
`DatabasesAlwaysAgree`.

**ResultAuthority_proofs** (`AuthorityConstants`, `AsksAreTyped`, `NoneIsNothing`).  Rows are only
added, so whatever was read is a prefix of what is there: `Chained` and `Recorded`
speak of the tables, `Reads` of what an operator or auditor has read of them,
`Claims`, `OneOwner`, `Settled` and `AnswersDone` of the boundary's answer,
`Audited` of the auditor's two reads, and `MadeOnce` that an operation makes one
revision at most, whatever becomes of its allowance.  Results: `ChainStaysLinear`, `AuditsPass`,
`ReportsHold`, `SnapshotsHold` (a snapshot put together from two reads and accepted
is the chain of one moment) and `AuthorityRefinement`.

**Durable_proofs** is about three parts whose evidence has to last, which share no
state.

* Published files (`PublicationAssumption`, `NothingIsNoFile`).  `PublicationInv` is
  `DiskLags` (what is on disk was in the directory), `JobsHold` (a job has staged and
  synced what its stage needs) and `ReportsOnDisk`.  Results: `NamesStayWhole`,
  `ReportsAreKept`, and `CreateOnlyStays`, which no run checks.
* The evidence journal and the sweeps (`JournalConstants`, `NoneIsNoJournal`,
  `RosterConstants`, `NoneIsNoSweep`).  The verifier says nothing
  of where identifiers lead, and of the last version only what its whole history implies.
  `Sound` adds both: `Bound` (an observation's identifiers lead to its source, so that
  a row cannot join two) and `Newest` (the last version of a source is the row of its
  newest observation, so that comparing with it decides whether a new one is a transition).
  `GrownSound` does one row; a page is a recursive function over its rows, and the
  induction over it (`RecordingExists`, `PageSound`) takes the least row that fails, as
  `LeastSet` does below.  `IInv` adds `Working` (a process about to advance holds a
  receipt whose observation names its target and is committed: the journal is written
  first) and `Done` (the steps are those the cursor counts).  Results:
  `JournalStaysSound`, `CheckpointHolds`, `StepsStay`.
* Probes and rehearsals of a parcel layer (`ProbeConstants`, `NilIsNoProbe`,
  `RehearsalConstants`: the checks of the policy's constructor, finitely many object
  IDs that are not negative).  Nothing a single request checks says what the list as a
  whole is worth, so `ParcelInv` relates it to the layer.  `Watched`: what was there all
  the time is there, and each record read is there or was deleted meanwhile.  `Ordered`:
  what was read increases, and of the records there all the time no more are in front of
  the rehearsal's place than it has read.  `Paged`: pages are full until the last, so
  that the offset of the next is the number of records read.  `Kept`: the responses are
  retained.  With the first and the last count equal and as many records read, the
  records missed are no more than those read that are gone (`MissedAreDeleted`); and over
  a layer nobody edits the next page lies behind the place, so that no check refuses it.
  For the probes, `Steadily` says that one state of the layer gave all answers of a probe
  over which nothing moved; from it `OneLayerPasses` derives that they are a valid page
  sequence whatever the count.  `Stored` and `Assessed` say that what an assessment rests
  on is stored and never changes, so that the same gaps would be found again.  The pages
  are those of the order of object IDs: `Lists` says of a sequence that it is a stretch of
  that order, `PageLists` that a page is, and `NthIncreases` rests on the least number for
  which an order fails.  The records of a list are those of its pages by an induction over
  the pages in the same manner (`FlattenAppend`).  Results: `SteadyLayersAlwaysPass`,
  `ListsMissOnlyDeleted`, `VerdictStaysFinal`, `VerifiedStaysReconciled`, and
  `RehearsalTypeCorrect`.

**RegistryApply_proofs** (`ApplyConstants`, `NoneIsNoRecord`).  `LocksHeld` (which
locks a process has at each stage), `StagesKnow` (what is durable by then),
`AppliesRest` (reports, backups and records against the files).  The hard part is
what *others* may do to the files of an apply in progress; `Steady` and `Settled`
state it once and each action lemma uses them.  Results: `AuditFollows`,
`OriginalKept`, `PendingCompletable`, `ReportsDurable`, and `LocksAlwaysResolve`:
since locks are taken in one order, the process waiting for the greatest lock
among the waiting can always go on.

**Collection_proofs** (`CollectionConstants`, `NoneIsNothing`).  That a lock has its
owner, that rows under way are shown as running and that `active.json` agrees with
the table each need the others: a collector may write because nobody else is in the
folder, and nobody else is there because it holds the lock.  `IInv` adds `Handles`
(what a handler holds at each step, and that it has the mutex when it moves a folder),
`Acknowledges` (what a copy under way carries over), `AllSound` (every folder, backup
and staged copy agrees with its own table) and `AllWork` (where each collector is, that
the row of a collection is the last one, and that the worker which reports late does
not report on the row of the collection that came in between).  `StepKinds` sorts the
steps into the server's, those of collectors that write in a table, and the others;
the frame lemmas `WorkFramed` and `LockedFramed` say once what a step leaves alone.
Results: `TypeCorrect`, `LocksOwned`, `PublishedNewest`, `AcknowledgedKept` and
`OutcomesFinal`.

**DomainStore_proofs** (`StoreConstants`, `NoneIsNoRow`).  An import may write on the
strength of a record it loaded before others changed it, so that what a record holds
is not what any one import meant it to.  `Explained` says it of any set of tables,
column by column; `AppendExplains` shows that an event and the columns flushed with it
keep it, whatever the record was loaded as.  `IInv` adds that what an import has
drafted is explained and loses no row and spoils no watch of the committed tables
(`Drafts`), that a record which an import has found is still there (`Imports`), and so
is a watch which a request has found (`Serves`).  Results: `TypeCorrect` (one import at
most has drafted anything, and a flush over a row changed meanwhile leaves a row),
`HistoryExplained` and `OvertakenOnly`.

**Commercial_proofs** (`DeskConstants`, `CommercialConstants`, `NoneIsNoRow`), about the
lead desk and the commercial records together.  `IInv` replaces what the properties say
with CHOOSE by a statement that a step can carry: `Scores` (some row begins the latest
run of one status, and feedback has its row), `Decides` (who made the decision that
counts: nobody yet, an edit of the facts, or a review), `Outreach` (an event that still
waits for its transaction already has its status row) and `Paired` (an entry is an
original or the only reversal of one).  The lemmas `FeedbackMoves`, `OutreachMoves`,
`DeskMoves` and `RecordMoves` say which actions touch which tables; one lemma for each
part follows.  A total is a sum over a set of entries, MapThenSumSet of the community
modules, defined by recursion over the set.  The prover has no induction principle for
it, but the natural numbers are well ordered (`LeastNumber`), so that among finite sets
with a property one has no smaller one (`LeastSet`): from this follow `SumsEqual`,
`SumRemove` (the order does not matter) and `SumGrown`, what an Append does to the sums.
Results: `OneStory`, `DecisionsHold`, `AlertsStay`, `RecordsHold`, and
`TotalsNeverNegative`, which no run checks.

Only model-checked is liveness (`RowsSettle`, `HandlersEnd`), which the proof
system does not cover.  Every safety property of the passing runs is the conclusion of a
theorem.

## 5. What is left

The plan is carried out as far as the modules above go.  Next would be a module of the
SMARTS snapshot history and its reviews, and the other modules of section 7 that keep
state.

## 6. Where code and text disagree

Shown by a run:

* `lead_obsolete_review`: the stale-state guard of a transition compares the status
  only.  After the workflow has left a status and come back, a move reviewed on the
  old payload is applied to the new one (`docs/architecture/lead_operator_cli.md:81`).
* `collection_denial`: the daily run looks for the text `HTTPStatusError`, which a
  status 403 never produces (`smarts_api.py:234` raises `SmartsApiError`), so a
  denial does not switch the source off (`collection_schedule.py:265`).
* `registry_audit_first`: the registry's document says backup, audit, then target
  (`docs/architecture/source_registry_update_plan.md:79`); the code writes the target
  before the audit (`source_registry_update_plan_cli.py:350`) and refuses the opposite
  order, which is what `AuditFollowsTarget` states.

Met while modelling, part of the models, without a run of their own:

* A duplicate verdict stored between the gate's read and the compare and swap does
  not stop the move (`lead_operator_service.py:320`).
* A sweep started again while its first process still holds a page makes versions
  the source never had (`smarts_collection.py:5`).
* After a crash between the transactions of `queue` the outreach row is there and
  its feedback and event never follow (`command_center_state.py:394`, against
  `tests/test_command_center_state.py:71`); `FeedbackMatchesLog` states what holds.
* Two operator ids have allowances of their own for the same reviewed payload and
  target.  After the status has gone away and come back both may be used, and the
  payload is moved twice (`effect_consumption.py:115`).
* When `commit_success` raises after a result's revision is durable, the handler closes
  the allowance as failed (`effect_consumption.py:240`): the revision exists, the report
  is lost, and the row does not say so.
* A success that is already durable and shown is overwritten by an error when the totals
  cannot be printed (`live_command_center.py:931`).
* Two plans over one snapshot with different sample sizes ask for different pages, so one
  may be stored as blocked and the other as clean
  (`parcel_source_acquisition.py:542`).
* After a success, when the registry is put back by hand and the same apply is run
  again with `--overwrite`, the old report is taken for the new one and completion
  is refused until somebody reconciles the files.
* The removal of the registry's journal may be undone by a power loss; recovery
  meets it (`ReportedIsDurable`).
* Two publishers that make one directory: the second reports before the first has
  synced the directory's entry.  `ToldIsKept` therefore speaks of durable directories.
* A layer without a count whose pages are partial ends as "blocked"
  (against `docs/architecture/parcel_arcgis_acquisition.md:76`).
* A watch that is added or archived while an import triggers it, or while another
  request answers, keeps columns that differ from its document.  From then on "watchlist
  indexed fields disagree with retained payload" is raised for the whole list
  (`operator_watchlist.py:303`), and an import fails when such a watch is active.
  `OnlyOvertakenDisagree` states that this is the only way to get there.
* Two write plans that load one record before either commits leave a record mixed
  from both sources' versions, and events that do not follow one another;
  `HistoryExplainsRecord` states what remains true column by column.
* An event is stamped before the wait for the write lock.  A watch added meanwhile is
  newer than it, so the change, although committed later, does not alert
  (against `operator_watchlist.py:264`).
* A registry source that goes A, B, A is answered by the first record of A
  (`source_registry_persistence.py`).

## 7. What is left out

* Cryptographic digests are the values they bind; equal digests are equal values.
* Checks of paths, owners, modes and byte limits; malformed files; a disk that
  loses what was synced.  Database files are not deleted or edited by hand.
* Collection: GETs (they change nothing, though one answer may mix two folders,
  `live_command_center.py:229`), several servers on one folder, scoring and contacts;
  `schedule.json` is merged without a lock (`collection_schedule.py:51`) by requests
  that the server serializes; within a traversal only its end is a step, since
  nothing but `active.json` and the journal changes on the way, and the journal has
  its own model.  A restore makes a folder of its own as long as `Folder` has one
  left.  That `mkdir` or `chmod` fails on an existing folder while a run is recorded
  is not modelled; a closed standard output while the totals are printed is, as the
  error `output`.
* LeadTransition: listing and searching; ResultAuthority: amounts (an outcome is a
  status and abstract terms), and the check of shares with `round`
  (`result_ledger_models.py:54`).
* SmartsRoster: counties qualify identifiers and are part of their names; the
  checkpoint's file checks; refused invocations, which change nothing.
* LeadDesk and Commercial: photos, notification marks, the import of contacts,
  sums and texts of a bid, the PDF.
* ParcelRehearsal: the authorization records of a rehearsal, which no command
  reads yet; normalization of fields.
* DomainStore: one kind of record (sites and entities have stores of the same
  shape), the limit of a list, and `scan_watched_source_changes`, which nothing in
  the repository calls.
* RegistryApply: applies of more than one operator id, each of which has an allowance
  of its own; plan, readiness and promotion reports, which are pure functions of their
  inputs.
* All components that `PROJECT.json` lists as `not_modelled`, each with its reason.
  Most of the repository's lines are of that kind: validators of immutable
  documents, report builders, command-line parsing and pages, in which a model
  checker has nothing to interleave.
