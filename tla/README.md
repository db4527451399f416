# A formal model of nearmiss

TLA+ modules, TLC configurations and TLAPS proofs for the parts of nearmiss
whose correctness depends on the *order* in which things happen: transactions
on private directories, failures between two steps, several processes on one
store. Paths below are relative to the repository root (`src/nearmiss` is the
Python package).

Contents

1. [The system](#1-the-system): components, state, interactions, hazards
2. [The modules](#2-the-modules): what models what, and how
3. [The runs](#3-the-runs): bounds, fairness, results
4. [What the model found](#4-what-the-model-found)
5. [The proofs](#5-the-proofs)
6. [Only model-checked, abstracted, not modelled](#6-only-model-checked-abstracted-not-modelled)
7. [The plan](#7-the-plan)

To reproduce, for any configuration `X.cfg` of section 3 and any module with
proofs:

    tlc -workers 2 -config Publication.cfg MCPublication
    tlapm IngestionProofs.tla

## 1. The system

nearmiss turns reports of near misses and public crash outcomes into published,
privacy-preserving safety datasets. Two halves share no state:

- the *report side*: `submit`, `approve`, `delete-reports`, `run`, `publish`, ...
  are shell commands over private JSON files; the dataset they publish is read
  by the web pages;
- the *outcome side*: `run_ingestion` keeps one private store per FARS source;
  lineage verifiers read the stores, context activation binds one store to
  another, and builders turn what a verifier returned into aggregate documents
  that are released, served and verified.

The control that is hard to get right is in what is kept on disk, in what is
read while something else writes it, and in the accounting that ties several
files to one another.

### Ingestion transaction (`src/nearmiss/ingestion.py`)

*State.* One directory tree per source, owned by one user: `raw/` and
`normalized/` hold content-addressed artifacts that are never changed,
`receipts/` holds one immutable JSON receipt per attempt (plus
`<id>.failure.json` after a failed rollback), `normalized/current.json` is the
only mutable file and holds the complete success receipt of the active
generation, and the directory `.ingestion.lock` exists while somebody writes.

*Operations.* `run_ingestion`: take the lock; load the active marker and both
its artifacts; archive it as a receipt; fetch, preserve, normalize, preserve;
build the success marker; check that nothing has moved; replace `current.json`;
validate what was activated; write the success receipt; release. An exception
in a protected stage inspects the marker, rolls it back if it is the
candidate, and writes a failure receipt; when the marker cannot be told, the
lock stays for an operator.

*Interactions.* Callers pass `fetch`, `normalize` and five validators as
callbacks. The year and context activations below are callers.

*Hard.* Every system call can raise, the process can be interrupted or killed
between any two of them, the rollback itself can fail, a stale lock is cleared
by hand, and attempt ids may be reused.

*Correct when* at most one writer is active; the active marker always resolves
to its two artifacts; a generation is replaced only after it is in the
immutable history; the caller and the receipts say what really happened; the
history is a chain; calls end; a lock is left behind only where the code means to
or cannot help it.

### Lineage verifier (`src/nearmiss/verified_outcomes.py`)

*State.* None: it reads, without taking a lock, lock absent, marker, all
receipts, the chain of successes, artifacts, marker again, lock absent.
*Interactions.* Reads the store `run_ingestion` writes, at any moment of a run;
its checks also run inside it as the callbacks of the ingest commands.
*Hard.* Runs begin and end while it reads; a clock with a resolution gives two
successes one time; a killed run leaves a temporary name.
*Correct when* what it accepts was one generation's consistent state, and what
it rejects has a reason other than bad luck.

### Year activation (`fars_year_activation.py`, `verified_fars_years.py`)

*State.* The store of one year. *Operations.* `activate_fars_year` adds to
`run_ingestion` a locked preflight (expected active identity), a bound on the
number of receipts, a revision chain, and a finalization check that authorises
exactly one receipt write; the year verifier returns the revision asked for.
*Hard.* The history is read in four callbacks of one call, and every receipt,
also of a failure, uses up the capacity.
*Correct when* the capacity is never exceeded and a revision follows the one it
names.

### Two-source context activation (`fars_context_activation.py`)

*State.* A context store, whose packages name generations of the *joined*
store. *Operations.* Full-history and audit-only activation, each one
`run_ingestion` with callbacks that verify the joined source;
`verify_active_fars_context`. *Hard.* Nothing locks both sources, and the joined
one is replaced by other processes between any two reads.
*Correct when* an active context is bound to a joined generation that was
active while the context was committed, and a reader that accepts a pair saw
two markers that stood together.

### Moderation and contributor rights (`moderation.py`, `contributor.py`, `intake.py`)

*State.* Private JSON files: raw reports, queue, approved, export, tombstones.
*Operations.* submit, approve, reject, export, delete, purge, intake, each of
which reads whole files, computes and writes whole files back in place.
*Hard.* No lock; two commands lose each other's change; a command that dies in
a write leaves a torn file and in between leaves two files that disagree.
*Correct when* only approved submissions are published, no later command drops
what was acknowledged, and a deleted report does not come back.

### Publication (`publish.py`, `engine.py`, `manifest.py`)

*State.* The five published files. *Operations.* `run` and `publish`: load,
filter, analyse, load again, check the privacy floor, hash the inputs, write
the files one after another. *Hard.* Its inputs are the desk's files, read more
than once. *Correct when* the files that are published belong together and the
floor was checked against what was published.

### FARS documents, releases and the live site

`adapters/fars_joined.py` joins two files of an archive row by row;
`fars_national_context.py`, `fars_public_context.py`, `fars_county_*.py` and
`fars_context.py` aggregate the records, each with a validator of its own;
`fars_county_public_index.py` verifies a release directory with revisions and a
ledger of corrections; `live_site_verifier.py` fetches the deployed site and
compares it with the reviewed build. `joined_outcome_artifacts*.py` writes the
joined records as an artifact, with limits and a regression policy;
`fars_public_index.py` verifies the state releases, whose second revision of
2024 corrects the provenance of the first; `fars_year_contracts.py` is the
registry of the contracts that years are ingested under. *Hard.* Each document is projected from
another one and both give totals, so a withheld cell may be recomputed; a
release is only looked at, never recorded, so its history must follow from one
directory; the site may be redeployed between two fetches. *Correct when* all
documents of a snapshot agree and withhold what they say they withhold, a
correction that was released stays true, and a verified site is one build.

### Report pipeline and statistics

`pipeline/` (window, deduplication, geocoding, snapping, classification,
quality flags) and `stats/` with `src/honest_rates` (significance under two
corrections, k-anonymity, corridors) are sequential. *Correct when* each event
is counted once, whatever the order of the files, and a published cluster or
corridor is one.

### Predictions, coverage and conformance

`preregister.py` freezes a day's prediction in two files, without a lock, and
scores it later; `coverage.py` derives a city's evidence tier from a registry of
declared sources and the data that load; `tools/verify_dataset.py` audits a
published dataset with its sidecar, manifest and corridor file, and
`tools/diff_datasets.py` explains what changed between two datasets. *Correct
when* a manifest vouches for the artifact beside it, a prediction is never
rewritten, a tier is explained by what is reported with it, and a dataset passes
only with the sidecar of its own run. (The corridor view is bound by its name
only, and may be of another run: section 4.)

### The web pages (`web/us-coverage.js`, `app.js`, `studio.js`, `dossier.js`, `submit.js`)

*State.* The national page has a selected year and state, artifacts that were
fetched, and the address bar; the city page a language, a sorting, a filter and
the print preparation; the Studio the evidence, the tier and a claim that it
hands to the dossier page; the submission form the report on offer. *Hard.*
Answers arrive in any order while the reader goes on, handlers write the URL
before or after they draw, and a link omits what it takes for a default.
*Correct when* what is shown is what is selected, a link gives the view it was
copied from, the panels agree, a claim has the tier of its evidence, and a
report that is submitted alone is not lost.

### The rest

Private paths, secure inputs and the server; count planning; reports, figures
and translations; configuration and command line; the site builder: sequential
code, most of it one file in and one file out. `PROJECT.json` lists every component with its sources and status,
and under `hazards` each thing that is hard to test, at its line, with the
properties that cover it.

## 2. The modules

| module | models |
|---|---|
| `PrivateStore` | the directory tree of one source: `_install_immutable`, `_atomic_replace`, `_unlink_file`, reads, crashes |
| `Ingestion` | `run_ingestion`: the lock, the stages, the handler, the rollback, the receipts; runners, operator and machine |
| `ActiveDataset` | the abstract specification: what readers of a source are promised (`docs/adr/0007`, `docs/INGESTION.md`) |
| `LineageVerifier` | extends `Ingestion` with the callbacks of three callers and one verifier |
| `ContextActivation` | two sources, the context runs on one of them, and the reader of both |
| `ReportStores` | the private JSON files, the processes, torn writes |
| `Desk` | extends `ReportStores` with moderation, contributor rights and intake |
| `Publication` | extends `Desk` with `run` and `publish` |
| `FarsJoin` | `collect_joined` and its indexes |
| `FarsDocuments` | the national, state and county documents and their validators |
| `FarsContext` | the city context: window, snap decision, cells, accounting |
| `ReportPipeline` | `pipeline.run` |
| `Clusters` | significance, k-anonymity, dependence verdict, corridors |
| `CountyRelease` | the county release directory, its tool and its verifier |
| `LiveSite` | `verify_live_site` against an origin that is redeployed |
| `JoinArtifact` | the artifact of joined records: limits, validator, regression policy, replay |
| `StateRelease` | the directory of the state releases, its tools and its verifier |
| `YearContracts` | the registry of contracts: its validation, and the edits of a maintainer |
| `Preregistration` | the files of a prediction, their command and their score |
| `CityCoverage` | the evidence tier of a city |
| `Conformance` | the audit of a published dataset, and the change report |
| `CoveragePage` | the national page: fetches, serial numbers, history |
| `AtlasViews` | the national page: what is drawn of a view, and its link |
| `CityPage` | the city page: language, sorting, filter, map, print |
| `Studio` | the Studio and the dossier it hands a claim to |
| `SubmitForm` | the submission form |
| `Orderings` | what a sort gives: the elements of a set, each after those that the order puts before it |
| `Algorithms` | composes the eighteen modules from `FarsJoin` on: a behaviour belongs to one part |
| `MC*` | instances for TLC |
| `IngestionProofs`, `IngestionHistoryProofs` | the theorems of section 5 about `Ingestion`, the second module on the first |
| `LineageProofs`, `ContextProofs`, `PublicationProofs` | those about `LineageVerifier`, `ContextActivation` and `Publication` |
| `AlgorithmProofs`, `CountingProofs`, `JoinProofs` | those about `Algorithms`: its state machines, what it counts, and the FARS path from the join of two files to the documents |

A definition whose comment begins with *Mutant* is not part of the model. It is
a plausible wrong version of the definition after it, and shows that a property
notices the difference.

### Ingestion

| variable | in the code |
|---|---|
| `disk[f]` | the directory entry `f`: `raw/sha256/..`, `normalized/sha256/..`, `receipts/<id>.json`, `receipts/<id>.failure.json`; its content or `None` |
| `volatile` | entries linked whose directory was not synced since; a power loss may remove them |
| `unlinked` | entries whose temporary name was removed since the last sync of the directory; a power loss may bring that second link back |
| `doubled` | entries that still have the second link of their temporary file; `_validate_regular_metadata` refuses `st_nlink != 1` |
| `current`, `durable` | `normalized/current.json` as readers see it, and as it is after a power loss |
| `lock` | 0, or the identity (device, inode) of the lock directory, named by the call that made it |
| `clock` | the injected clock at completion time |
| `pc[r]`, `job[r]` | the stage of a runner's call, and its local variables (`prior_active`, `raw_digest`, `normalized_digest`, `success_marker`, `stage`, `retain_lock`, ...) |
| `runs`, `faults` | counters that bound the calls and the injected failures |

A digest is its payload: `RawFile(x)` is the entry whose name is the SHA-256 of
`x`. A receipt is a record of the fields that properties tell apart.

*Actions.*

One action is one stage of `run_ingestion`: the code between two points at
which another process, a failure or a reader could see what the stage left on
disk. `_install_immutable` is one step that either succeeds, or collides, or
raises before the link, or raises (or is killed) after it. `_atomic_replace`
either succeeds, or raises before or after the rename. That gives every
observable intermediate state without a step per system call.

| action | code |
|---|---|
| `Start` | ids and timestamps taken before the lock |
| `AcquireLock`, `AcquireFails`, `ReleaseLock` | `_acquire_lock`, `_release_lock`, `_finalize_lock` |
| `LoadActive`, `ArchiveActive`, `CheckOwnReceipt`, `RecordLimit` | `_preflight_attempt` and the preflight of the caller |
| `Fetch` ... `BuildMarker` | the protected stages up to the success marker |
| `Precommit`, `Commit`, `ValidateActivated`, `FinalizationAllowed`, `WriteReceipt` | integrity check, replacement, validation, history |
| `CallbackRaises`, `StageInterrupted`, `PreflightInterrupted`, `InterruptedUnguarded` | callbacks that raise; `KeyboardInterrupt`/`SystemExit` in each part of the function, the two gaps without a handler included |
| `HandleChanged`, `HandleAmbiguous`, `HandleKnown`, `Rollback`, `RollbackRaises`, `RecordFailure` | the handler |
| `HandlerEscapes` | what leaves the handler before its rollback: a second interrupt, or an `OSError` of the candidate's artifacts, which `_candidate_artifacts_authenticated` (885) does not catch; `finally` gives the lock back |
| `Kill`, `PowerLoss`, `ClearLock` | the environment: a dead process, a dead machine, an operator who removes the lock of a run that has ended |

`Faults` chooses the kinds of failure a run injects: `exception` (a system call
raises), `interrupt`, `kill`, `read` (a marker or artifact cannot be read),
`power`, and `unlink` (with an exception or interrupt, the unlink of the
temporary file may be what fails). `MaxFaults` bounds how many.

*The abstract specification.* `ActiveDataset` has an active generation, an
archive, and a fallback while an activation can still be withdrawn: `Activate`
(only when the active one is archived), `Archive`, `Settle`, `Withdraw`.
`Ingestion` maps `active` to `current`, `archive` to the success receipts on
disk, and `fallback` to the prior marker of the run that has just committed.
`ImplementsDataset` says that every step of the code is one of those or a
stutter. So a marker is put back only by the attempt that activated it, only
while that attempt is in its validation or its handler, and only to the
generation before.

### Lineage verifier and year activation

The runners are those of `Ingestion`; a stage of theirs goes on exactly if the
callback of their caller returns: `CandidateAccepted` (`validate_normalized` of
the `fars` and `fars-joined` commands) and `YearCheck` with its four callbacks
(`PreflightYear`, `HistoryYear`, `ActivatedYear`, `FinalizationYear`). `source`
says which caller. The verifier makes one file access per action, in the code's
order: `CheckUnlocked`, `ReadMarker`, `ScanReceipts`, `VerifyChain`,
`RereadMarker`, `CheckStillUnlocked`. `Chain` is `_ordered_successes`: successes
sorted by completion time, each naming the one before.

| variable | in the code |
|---|---|
| `began`, `preflight` | `started_at` of a call, and the history its preflight saw |
| `vpc`, `view` | the verifier's next access; marker and history it has read |
| `disturbed`, `shaken`, `witnessed` | ghosts: the lock was held, a failure struck, and what was active, during the verification |

### Context activation

The joined source is an instance of `ActiveDataset` (`Joined`): each step of
it (`JoinedArchives`, `JoinedActivates`, `JoinedReleases`, `JoinedWithdraws`, `JoinedBreaks`) is
one of that specification, taken with the lock held. That these are enough to stand for
`run_ingestion` is what `ImplementsDataset` says of `Ingestion`, whose steps all map to one
of them, and what `OneWriter` says of the lock; that they are not too few shows in the
refusals, which are those of the code. The context source is written with the callbacks
of this module, in one record (`context`).

What the readers refuse is kept in the state: failure receipts use up the capacity
(`joinedFailed`, `MaxReceipts`, `MaxSuccesses`); generations have payloads, so one may
bring an older content back (A, B, A), and completion times, which may tie; a run that
breaks (`Breaks`) may leave a temporary file or a second link in `receipts/`
(`Littered`), the receipt of a generation that is then withdrawn, a marker that is not in
the history, or its lock. `JoinedReplays` is `_scan_receipts`, `_ordered_successes`
and `_verify_joined_chain`; `Scanned` and `Latest` the same for the context store.
`AccessJoined` is one access of a verification of the joined source that runs
inside the context's callbacks, `ReaderStep` one access of
`verify_active_fars_context`. The three modes are the entry points
(`activate_fars_context_full_history`, and `.._audit_only` with and without a
joined root).

### The report side

| variable | in the code |
|---|---|
| `file[f]` | the contents of each JSON file, `Torn` or `Missing` |
| `pc[p]`, `job[p]` | the file access a command is about to make, and its locals |
| `submitted`, `started`, `crashes` | counters that bound the instance |
| `reviewed`, `kept`, `fed` | ghosts: reports a moderator approved; submissions, and approvals, that were acknowledged with no other command running |
| `forgotten`, `erased` | ghosts: contributors who asked for deletion; reports tombstoned by a deletion that returned while alone |
| `basis`, `settled`, `whole` | ghosts: the reports the dataset counts, what was erased when its command started, and whether one command alone wrote the files last |

An action is one file access with the computation up to the next one. A command
reads a file whole and writes it whole, in place (`open(path, "w")`); `Write`
may leave `Torn` when the process dies, and a reader of a file that another
command is writing may fail. `alone` records that no other command overlapped:
the code has no lock, so only commands that ran alone can promise anything.

### The algorithms

A *part* is one component. For a pure one the initial state has an input from
`MCAlgorithms` and one step computes the code's result; the invariant compares
it with a reference that is written differently: as a relation between input
and result, and not in the order of the code. The release directories, the
registry, the preregistration, the live site and the pages are state machines of
their own that take many steps: each has one variable, or a few, and the others
stand still.

- `FarsJoin`: `AccidentIndex`, `PersonIndex` (a recursion over the rows, with every
  refusal), `Collect`.
- `FarsDocuments`: a snapshot is a bag of record kinds; `NationalAccounting`,
  the projection to the public document, the feasibility counts, the crosswalk
  projection and the public county shard, each with its validator.
- `FarsContext`: `PointSnap` with the candidates the grid index returns,
  `ContextCells`, the thirteen checks of `ValidContext`.
- `ReportPipeline`: `Dedupe` settles the reports in the order of the instants, `Geocode`, `SnapTo`,
  `QualityFlags`.
- `Clusters`: both corrections on integers, over the segments `ByP`; corridors and their chains.
- `CountyRelease`: an operator writes and removes shards, appends corrections
  and rebuilds the index in any order; `VerifyDirectory` accepts a directory.
- `LiveSite`: one action is one fetch; `Deploy` swaps the build.
- `JoinArtifact`: `LineageAccepts` and the limits on what `FarsJoin` returns.
- `StateRelease`: an operator writes artifacts, either index and the ledger in
  any order; `VerifyRelease` accepts a directory.
- `YearContracts`: `AppendRevision` and `AmendRevision` propose a registry, and
  only one that `RegistryValid` accepts is loaded.
- `Preregistration`: the two writes of a command are two actions, and
  `KillCommand` leaves a file as it was or half written.
- `CityCoverage`: `RegistryLoads`, `AssessmentDate`, `EvidenceTier`, `Unlocks`.
- `Conformance`: the checks `HR1` to `HR5` on the files of two publications, in
  any mixture; `diff_datasets` on pairs of segments.
- `CoveragePage`: an action is an event with all promise reactions it sets off,
  in their order; a request whose serial number is overtaken is dropped unless
  it has a continuation.
- `AtlasViews`: `ViewLink` writes a view into a URL and `RestoreView` reads it
  back; each control normalizes, draws and writes in its own order. What is
  sorted or filtered is stated by rank (`InOrder`): an element has the place of
  the number of elements before it.
- `CityPage`: `LanguageArrives`, `BeginPrint` and `EndPrint` save and restore;
  every panel is a function of the rows and the language it was drawn in. A sort
  by a number orders equal ones by the id; one by name leaves equal names in the order
  of the last sort by a number (`Resort`, `Ahead`).
- `Studio`: `FileIsRead` ends with the declarations of that moment.
- `SubmitForm`: answers of the endpoint and of the device change whatever form
  is there by then.

## 3. The runs

| run | instance | checks |
|---|---|---|
| `Ingestion` | 2 runners, 3 calls, 2 failures of any kind but power loss | `TypeOK`, `OneWriter`, `ResultTruthful`, `MarkerResolves`, `Reconcilable`, `SupersededIsArchived`, `ImplementsDataset`, `StaleLockHasCause` |
| `IngestionReuse` | 1 runner, 3 calls, 2 failures, ids may be reused | `ChainResolves`, `FailureReceiptsTruthful`, `ReceiptsResolve` |
| `IngestionRecovery` | 1 runner, 3 calls, 1 failure: exception, interrupt, read or power loss; `FairSpec` | `MarkerPreserved`, `RunsEnd` |
| `Lineage` | 1 runner, 3 calls, 1 exception or kill, 1 verification, 3 kinds of source | `AcceptedLineage`, `AcceptedWasActive`, `YearChain`, `WithinCapacity`, `RejectionHasCause` |
| `Context` | 4 calls, at most 3 joined runs and 3 activations, 1 of them breaks, 2 configurations, histories of 3, 1 reader | `EvidenceSpansCommit`, `ContextChainReplays`, `AcceptedPairCoexisted`, `RefusalHasCause` |
| `Publication` | 2 shells, 4 commands, 1 of them dies, 2 submissions, 3 reports of 2 contributors | `ErasedStaysErased`, `AcceptedStaysQueued`, `ApprovedStaysFed`, `OnlyVettedPublished`, `RunHonoursDeletions`, `PublicationWhole` |
| `Algorithms` | some 53,000 inputs of the pure parts; 2 to 6 changes of each release, registry and preregistration; 3 deploys; 3 to 6 events on each page | `JoinedFilesAgree`, `DocumentsTellOneStory`, `WithheldStaysWithheld`, `ContextIsAccounted`, `EventsCountedOnce`, `ClustersAreReal`, `AuditsAreTruthful`, `LiveSiteMatched`, `PageShowsSelection`, `LinksRestoreViews`, `ClaimsAreGrounded`, `PublicReleasesHold` |
| `IngestionKill`, `IngestionOrphan`, `IngestionPower` | 1 runner, 3 calls | `InterruptionReconciled`, `AuditChainLinear`, `MarkerPreserved`, each violated: section 4 |
| `PublicationReject`, `PublicationUpstream` | 1 shell | `RejectedStaysOut`, `RunHonoursDeletions`, violated: section 4 |

### Properties

*Ingestion.*

- `OneWriter`: two runners are never past `_acquire_lock` together, and a
  runner works under the lock directory it made, although runs die with the
  lock and operators clear it.
- `MarkerResolves`: `current.json` always names artifacts that are there.
- `SupersededIsArchived`: a later generation never replaces one that is not in
  the history; in particular not one whose writer died before its history copy.
- `MarkerPreserved`: after one failure, a power loss included, the bytes that the
  marker names are on the disk (an entry may have its second link back).
- `ResultTruthful`: success means active and archived; a failure that releases
  the lock means that the prior marker is back; an interrupt means prior or
  new; a failed rollback keeps both the lock and the candidate; an error that
  escapes from the handler leaves the candidate, without rollback or receipt.
- `StaleLockHasCause`, of every step: a lock is left behind only by the release of
  a call that was told to retain it, by a failure in the acquisition, in the two gaps
  without a `try` or in the release itself, by a kill or a power loss; and a call is
  told to retain it only at a step in which something failed.
- `ChainResolves`: each predecessor named by a success is in the history, and
  older.
- `FailureReceiptsTruthful`: an `activated: false` receipt is never of the run
  whose marker is active; `activated: true` is of one whose marker was.
- `ReceiptsResolve`: no receipt names a payload that was not preserved.
- `Reconcilable`: with the lock free, the next preflight can load and archive
  the active marker, unless one of the three entries that it reads has a second
  link: nothing else that failed or was killed makes the source stuck.
  `InterruptionReconciled` (violated) is the promise of `docs/INGESTION.md:70`,
  without the exception.
- `RunsEnd`: a call ends, also one that meets a lock nobody releases.
- `ImplementsDataset`: the refinement above.

*Lineage and years.*

- `AcceptedLineage`, `AcceptedWasActive`: the marker and the history that a
  verifier accepts belong together, and that marker was active, with no writer,
  at some moment of the verification. A verification during which a failure
  struck is excluded (`shaken`), because of what section 4 says of it.
- `RejectionHasCause`: a store that runs wrote without a failure, and that no
  run holds, is refused only because nothing is active, two successes have one
  time, a joined generation came back, or the history outgrew the verifier. A
  year, whose callbacks check all of it, never is.
- `YearChain`: between two calls the successes of a year are a chain of revisions
  from 1 that skips none, whatever calls failed or were killed.
- `WithinCapacity`: the receipts of a year never exceed the verifier's bound,
  those of failures included, and an active generation that is not archived yet
  still has a place, until a rollback fails: its receipt is one that no
  preflight made room for.

*Context.*

- `EvidenceSpansCommit`: when a full activation writes its evidence, the joined
  generation its artifact was derived from is the only one that was settled from
  the check before the commit to the check after it.
- `ContextChainReplays`: the history can be checked again from nothing, also
  when audit-only activations, which check less, wrote part of it.
- `AcceptedPairCoexisted`: the pair a reader returns stood together.
- `RefusalHasCause`: if it met no lock, it refuses only because nothing is active, a
  store is spoilt, or the joined source has moved on from the context. A store is
  spoilt by what a run that broke left in it (`JoinedSpoilt`, `ContextSpoilt` list it), by
  more receipts than are read, and the context store by generations that tie or are one
  too many. The chain of contexts is never the cause; and a joined generation
  that brings a content back, ties or is one too many never is alone, because no
  context is derived of it: the joined source has then moved on.

*Report side.*

- `ErasedStaysErased`: a report that a contributor deleted, no other command
  running, is never again in the raw store, the queue or the approved store, by
  no import or submission, whatever overlaps or dies afterwards.
- `AcceptedStaysQueued`, `ApprovedStaysFed`, of every step: what submit or approve
  acknowledged while alone leaves the queue, or the feed, in two ways only, whatever
  overlaps later: its contributor deletes it, or a command dies inside the in-place
  write of that file (`moderation.py:121`), which loses all of the file. Two commands
  that overlap from the start can drop each other's change.
- `OnlyVettedPublished`: what is counted in the dataset satisfies the schema and
  is from upstream or was approved.
- `RunHonoursDeletions`: what is published after a deletion does not count it.
- `PublicationWhole`: the files one undisturbed publisher wrote belong together,
  the manifest names the input that was analysed, and no published vertex is at
  the point of a counted report.

*Algorithms.*

- `JoinedFilesAgree`: an archive is refused exactly when its two files disagree,
  and every person row is counted in its own crash or excluded with it. Two files
  that agree give an artifact that the validators accept, unless no crash is left or
  too many were rejected; the gate of a replacement and the lineage verifier judge it
  alike, and a release that only adds crashes and people needs no allowance.
- `DocumentsTellOneStory`: every document of a snapshot passes its own
  validator, and equal things counted along different paths are equal.
- `WithheldStaysWithheld`: each count that a state's county shard withholds could be
  another one: some snapshot that differs in one crash (added, removed or replaced) has
  the same shard and another count there. It is about counties that the review reaches
  with a code (any other is always 0), and says nothing of a reader who has the state
  document too, who can subtract the two (section 4).
- `ContextIsAccounted`: a city cell counts what the whole network puts on that
  street, whatever the index returned, and the builder never refuses its own
  result.
- `EventsCountedOnce`: by the rule of `_is_duplicate`, no two records repeat each
  other, a removed report repeats one that is kept, and nothing depends on the
  order of the files. It takes the rule itself from the code, which merges more than
  `METHODOLOGY.md:105-109` (section 4).
- `ClustersAreReal`: the clusters are the largest set that keeps the promise of
  the correction, the stricter one finds none besides; corridors are disjoint, join the
  clusters with spans that touch on a street, and have no order only at a branch. Two
  comments of `corridors.py` promise more (section 4).
- `PublicReleasesHold`: what a released county correction says stays true in
  every later release that has it (`ReleasesKeepHistory`); the counts that a
  state release has published stay published (`CountsStayPublished`); an archive
  is identified by one contract, and a contract that was succeeded stays
  (`RegistryHolds`, `SucceededStays`); a manifest vouches for the artifact beside
  it wherever a command was killed, scores account for every flagged segment,
  and a prediction is never another one (`PredictionsHold`, `PredictionFrozen`). It
  does not say that the counts of a county without a correction, or a score, stay:
  they need not (section 4).
- `AuditsAreTruthful`: a finished dataset passes exactly when it keeps the floor of the
  reader, and one beside the sidecar of another run never, unless both wrote the same; a
  change report classifies every segment once, with a cause that is true
  (`AuditTruthful`); and a city's tier is explained by what is reported with it
  (`CoverageExplained`). It leaves out what the documents say beyond that and the code
  does not do: the run of a corridor view, the precedence of the causes, and two labels
  (section 4).
- `PageShowsSelection`: whatever order artifacts arrive in, the national page
  shows the release of its year, the profile of its state and the URL of both,
  and says that it is loading only while something is on its way
  (`SelectionShown`, `PageSettled`); the city page's table, map and call-outs
  agree, in one language, on the screen and in print (`CityPageTruthful`).
- `LinksRestoreViews`: the URL in the address bar gives the view on the screen,
  whichever handler wrote it (`LinkRestores`), and no panel contradicts another
  (`PanelsTruthful`).
- `ClaimsAreGrounded`: a claim has the tier of the rows it was made from, on the
  dossier page as well (`ClaimGrounded`); the report that was submitted last is
  under way, received or on offer, unless it was sent while another one was under
  way (`NothingSubmittedIsLost`).
- `LiveSiteMatched`: a verified site is the reviewed build and not a mixture.

### Bounds

*Ingestion.* Three calls are the fewest with a generation, its successor and a
call that finds what a failure of either left. Two payloads allow both a new
and an identical payload (the `FileExistsError` branch) in each position. Two
runners suffice for mutual exclusion and stale locks: a third one can only be
refused. Two failures reach a failure in the handler of a failure (a rollback
that fails, a second interrupt, a kill after an exception). `IngestionReuse`
has one runner because ids collide across consecutive calls and the lock
excludes concurrent ones.

*Lineage.* One runner: the lock makes others wait, and what a verifier can meet
is a run that begins or ends. Three calls give a chain of three, which is the
shortest with a middle. `ClockSteps = {0, 1}`: the clock advances between calls
or does not; it does not go back and stands still during a call. The capacities
(2, 3 and 2 receipts) are reached by three calls.

*Context.* Four calls (`MaxCalls`), at most three of either source, are in any order a
joined generation that is pinned, one that replaces it, and one that brings the first content
back (A, B, A), with an activation beside them; or one joined generation and a chain of three
activations, by different modes, which has a middle. The second joined generation ties with
the first, and the third activation with the second. Two configurations allow both a new and
an identical artifact. `MaxReceipts = MaxSuccesses = 3` is reached by three runs and exceeded
when a run that fails adds its receipt, or one archives for one that stopped.

*Publication.* Four commands are the fewest with submit, approve, run and a
deletion, in any order and overlapping; two processes are two that race. Of the
three reports one is invalid, one is expired and lies on a vertex of the other
segment; the first two belong to two contributors. `MinPublish = 1` with three
reports lets a segment have a publishable count.

*Algorithms.* The inputs are chosen so that each threshold is met, missed by
one and passed (see the comments of `MCAlgorithms`): rows of two crashes with
every kind of disagreement; up to five crashes in two states; distances at the
limit and the margin; three reports around the windows; p-values with ties;
six edits of a county release (two shards, a correction, an index, and one
change too many) and five of a state release; three deploys during a
verification; three revisions of a contract, which have a middle, and two edits;
four commands of preregistration on two days. On a page, three events are a
choice, its reversal or overtaking, and one more while both are under way; the
Studio needs six (a file, two declarations, a check, a claim, the dossier), and
a seventh for a check that comes after an overtaken one, and the form five (two
reports that differ).

Symmetry exchanges runners, processes, configurations, and payloads together
with what they normalize to; it is used in no run with a liveness property.
`CHECK_DEADLOCK FALSE` is in every configuration because the number of calls,
commands, edits and deploys is bounded: after the last one the model stops, as
the program does.

### Fairness

`FairSpec` of `Ingestion` assumes weak fairness of `Step(r)` for each runner: a
process inside `run_ingestion` keeps executing, and the function waits for
nothing (the lock is refused, not awaited; callbacks return or raise). Nothing
is assumed about starting a call, clearing a lock or the environment. `RunsEnd`
would fail if any branch of the code waited for a lock to be cleared.

`IngestionRecovery` has one failure, since with two `MarkerPreserved` is violated: that is
finding 3.

## 4. What the model found

Each of the first five is the counterexample of a run.

1. **A kill in the install of a receipt blocks the source** (`IngestionKill`).
   `_install_immutable` links the entry and unlinks the temporary file
   afterwards (598-606). A process killed in between leaves two links, which
   `_validate_regular_metadata` (454) refuses: every later preflight raises
   while it archives the active marker. `docs/INGESTION.md:70` promises that
   preflight reconciles the marker after an interruption in exactly that place.
   An unlink of the temporary file that fails has the same effect, and so has a power
   loss before the unlink is durable, which no sync follows: in the model these, too,
   put an entry into `doubled`.
2. **A rolled-back success stays in the history** (`IngestionOrphan`). When the
   directory sync after the link of the success receipt fails (604), the
   handler rolls the marker back, but the receipt of the success stays, and the
   failure receipt collides with it. The next success names the generation
   before, so two successes name one predecessor and the lineage verifier
   rejects the source.
3. **A retry trusts an entry that nobody synced** (`IngestionPower`). The
   `FileExistsError` branch (600) compares and returns without a sync. An
   attempt interrupted before its sync, a retry with the same bytes that
   commits, and a power loss leave a marker whose artifact is gone;
   `docs/adr/0007:51` says that a crash leaves a valid receipt.
4. **A rejected submission stays published** (`PublicationReject`). `reject` does
   not look at the status and does not touch the approved store
   (`moderation.py:233`): a submission that was approved before is marked
   rejected and its report is still fed to every run. The docstring (229-230)
   and `docs/SUBMISSIONS.md:59` say that a rejected report never enters the
   pipeline.
5. **The upstream reports file is not filtered** (`PublicationUpstream`). When
   `config.reports_path` is the upstream file, as in `config/davis.toml:18`, a
   run reads reports that were deleted (`engine.py:30`);
   `docs/SUBMISSIONS.md:127-129` says that a deleted report does not come back.

In the next six the model does what the code does, and the properties of section 3 say no
more than that; the documents say something else. Each was found by stating the sentence of
the document as an invariant, which TLC refuted; no run is kept for them.

6. **A read error in the handler keeps the candidate**. When the
   activated validation fails, the handler first reads the candidate again (1246).
   `_candidate_artifacts_authenticated` catches only `IngestionError` (885-891); an
   `OSError` of that read leaves the handler before the rollback and the receipt, and
   `finally` gives the lock back. The docstring (1062-1063) says that every other exception
   after preflight "produce[s] a failure receipt" and that "the prior normalized artifact
   remains active".
7. **Deduplication merges more than is documented**.
   `METHODOLOGY.md:105-109` asks for the same type, a small distance *and* a shared
   pseudonym or signature, and keeps both in doubt. `_is_duplicate` (`dedupe.py:35-37`) takes
   one pseudonym alone, whatever the types, and without pseudonyms type and mode alone; and
   since `run` merges before it geocodes (`pipeline/__init__.py:31`), two reports that only
   have an address are at one place, however far apart their addresses are.
8. **Corridors**. Segments whose names have no span are
   merged, although `corridors.py:47-48` says never; three segments that meet at one node get
   an order, although the docstring of `_order_chain` (142-143) says none.
9. **The audit and the change report**. A corridor view
   is bound by names only (`verify_dataset.py:948`), so one of an earlier run passes beside a
   dataset that withholds its segments, although `dataset.schema.md:582-585` says that it can
   never surface such a count. `diff_datasets.py:8-15` documents a fixed precedence of the
   causes; a hotspot that was or is withheld is classified without a look at the thresholds
   that differ (181-196, 231-246), and a lowered floor is called the cause although the count
   also grew past the old one.
10. **Labels**. `ADAPTING.md:304` says "at or below"
    `small_n`, the code `<` (`stats/__init__.py:246`). `COVERAGE-TIERS.md:24-25` calls a city
    modeled for its exposure; a missing core source does it as well (`coverage.py:266`), and
    `unlocks` does not name it, only `missing_core_source_kinds` does.
11. **What is published can be replaced**. The county
    verifier (`fars_county_public_index.py:888`) sees one directory, so the counts under a
    revision can be rewritten and indexed again, although the module "refuses ... silent
    revision replacement" (7-8); only what a correction names is pinned. A second score of one
    day overwrites the first (`preregister.py:366`), although the outcome is committed "win or
    lose" (333).

Other differences between the code and what is said about it, found while
modelling and not the subject of a run:

- The listed order of a corridor comes from iterating over a set of strings
  (`corridors.py:134`) and changes with `PYTHONHASHSEED`, although
  `DATA-CARD.md:585` says deterministically and `README.md:496` byte for byte;
  the CI pins the seed.
- The exact totals of `moderation_stats` let a single withheld cell be computed.
- The public builder refuses exactly one withheld positive cell; the private one
  allows it. A public state document with two withheld cells of total 2 shows
  both to be 1. The state document and the county document of one snapshot can
  be subtracted (`docs/COUNTY-DRILLDOWN-IMPLEMENTATION-PLAN.md:715-735` says so).
- `_estimate_dispersion` uses segments below the exposure floor.
- A deletion can add a record: a report that was dropped as a duplicate of the
  deleted one is kept again.
- A `.failure.json` of a failed rollback makes the lineage scan refuse for good.
- A joined source may return to an earlier payload, which its verifier refuses.
- A success receipt whose sync fails is rolled back between the reread and the
  relock of a verifier, which then accepts a generation that is not active.
- `approve` that dies between its two writes leaves a submission that is approved
  in the queue, absent from the store, and cannot be approved again. Two
  commands that overlap may drop each other's change.
- *Submission form.* With two reports under way, the failure of the older one
  replaces the newer one that is on offer, although `submit.js:166` says that a
  submission is never lost. The message that sending failed is overwritten at
  once by the one that the report is ready (167-168, 149). A success empties
  whatever the form holds by then, and a location that arrives late is written
  over typed coordinates.
- *National page.* The continuation of a step through the history has no serial
  number (2914-2917); clearing the first state of a comparison while a release
  loads leaves a URL with a level and no state, which a reload refuses; going
  back to the same year after an error never retries; the language is not
  restored; while a release is loading, a change of the scale throws before the
  URL is written; a fifth saved state is announced as saved and dropped; a link
  with `state=NY&a=CA` is opened with NY in both places.
- *City page.* Of two languages asked for at once the later answer wins; a failed
  second fetch of a catalog discards the good one, a failed one is never tried
  again and leaves `lang="es"` on English text; after a failed load, sorting
  replaces the failure by "0 segments"; the sort status and the caption of an
  empty dataset are not translated again; links of the summary lead nowhere
  while a filter hides their row.
- *Studio.* A file that is no longer selected may be read last; its rows replace
  those that are held while the claim that is on the screen stays, so the next
  check gives another tier beside the old claim; an empty place is
  replaced by the fictional sample; the dossier keeps "is elevated" for a result
  without a tier, which `workflow_check.mjs:111-114` forbids.
- *Audit.* Corridors are counted over all records (`corridors.py:252`), unlike
  `METHODOLOGY.md:268`.
- *State release.* A new year, or changed counts, cannot be released without a
  change of the code.
- *Registry.* Only adjacent revisions are compared, so the first and the third
  may share an archive; only the pair of 2024 is pinned, so any other first
  contract, or a whole relinked registry, can be rewritten.
- *Preregistration.* The score never calls `verify_registration`; two commands may both pass the exists check; a kill leaves a day without
  a manifest that cannot be registered again.
- *Coverage.* A source dated in the future is never stale.

## 5. The proofs

TLAPS checks these for every value of the constants that satisfies the named
assumptions, that is for any number of runners, calls, submissions, commands,
payloads and failures. Where the third column is empty, every kind of failure is
allowed that the module models.

| theorem | of | only if | what it says |
|---|---|---|---|
| `TypeCorrect` | `IngestionProofs` | | `[]TypeOK` |
| `LockExcludes` | `IngestionProofs` | | `[]OneWriter` |
| `MarkerAlwaysResolves` | `IngestionProofs` | no power loss | `[]MarkerResolves` |
| `ResultsAreTruthful` | `IngestionProofs` | | `[]ResultTruthful` |
| `SupersededAreArchived` | `IngestionProofs` | | `SupersededIsArchived`, of every step |
| `StaleLocksHaveCauses` | `IngestionProofs` | | `StaleLockHasCause`, of every step |
| `ChainsResolve` | `IngestionHistoryProofs` | no power loss, a clock that advances between calls | `[]ChainResolves` |
| `ReceiptsAlwaysResolve` | `IngestionHistoryProofs` | no power loss | `[]ReceiptsResolve` |
| `FailuresAreTruthful` | `IngestionHistoryProofs` | no power loss | `[]FailureReceiptsTruthful` |
| `AlwaysReconcilable` | `IngestionHistoryProofs` | no kill, power loss or failed unlink; no id twice | `[](Reconcilable /\ doubled = {})`: no second link is ever left |
| `DatasetImplemented` | `IngestionHistoryProofs` | no power loss | `ImplementsDataset`: `Ingestion` implements `ActiveDataset` |
| `ContextTypes` | `ContextProofs` | | `[]TypeOK` |
| `EvidenceAlwaysSpans` | `ContextProofs` | | `[]EvidenceSpansCommit` |
| `ContextsReplay` | `ContextProofs` | | `[]ContextChainReplays` |
| `PairsCoexisted` | `ContextProofs` | | `AcceptedPairCoexisted`, of every step |
| `RefusalsHaveCauses` | `ContextProofs` | | `RefusalHasCause`, of every step |
| `AcceptedGenerationsWereActive` | `LineageProofs` | | `LineageSpec => []AcceptedWasActive` |
| `AcceptedLineagesHold` | `LineageProofs` | | `LineageSpec => []AcceptedLineage` |
| `CapacityIsKept` | `LineageProofs` | | `LineageSpec => []WithinCapacity` |
| `YearsAreChains` | `LineageProofs` | an artifact determines its archive | `LineageSpec => []YearChain` |
| `RejectionsHaveCauses` | `LineageProofs` | an artifact determines its archive | `LineageSpec => RejectionHasCause`, of every step |
| `ErasedNeverReturns` | `PublicationProofs` | | `[]ErasedStaysErased` |
| `AcceptedAreQueued` | `PublicationProofs` | | `AcceptedStaysQueued`, of every step |
| `ApprovedAreFed` | `PublicationProofs` | | `ApprovedStaysFed`, of every step |
| `PublishedIsVetted` | `PublicationProofs` | runs read a store of the desk or of intake | `[]OnlyVettedPublished` |
| `DeletionsAreHonoured` | `PublicationProofs` | runs read a store that deletions reach | `[]RunHonoursDeletions` |
| `PublishedWhole` | `PublicationProofs` | | `[]PublicationWhole` |
| `VerifiedSitesMatch` | `AlgorithmProofs` | | `[]LiveSiteMatched` |
| `ClaimsStayGrounded` | `AlgorithmProofs` | | `[]ClaimsAreGrounded`: the Studio, its dossier and the submission form |
| `ReleasesStay` | `AlgorithmProofs` | | `PublicReleasesHold`: both release directories, the registry and the preregistration |
| `SelectionStays` | `AlgorithmProofs` | | `[]PageShowsSelection`: the national page, for any years, states, events and failures, and the city page, for any dataset and messages |
| `LinksStay` | `AlgorithmProofs` | | `[]LinksRestoreViews`: the links and the panels of the national page |
| `ContextsAreAccounted` | `CountingProofs` | | `[]ContextIsAccounted`: the city context, for any number of crashes, streets and modes |
| `AuditsStayTruthful` | `CountingProofs` | | `[]AuditsAreTruthful`: the audit of a directory that two runs wrote, the change report, and the tier of a city |
| `EventsStayCounted` | `CountingProofs` | | `[]EventsCountedOnce`: for any reports, window, streets and gazetteer |
| `ClustersStayReal` | `CountingProofs` | | `[]ClustersAreReal`: for any network, p-values, counts and level |
| `JoinsStayAgreed` | `JoinProofs` | | `[]JoinedFilesAgree`: for any two files, prior release and limits |
| `DocumentsStayOneStory` | `JoinProofs` | | `[]DocumentsTellOneStory`: for any snapshot, floor and reviewed crosswalk |
| `WithheldStaysSecret` | `JoinProofs` | | `[]WithheldStaysWithheld`: for any snapshot, reviewed crosswalk and county shard |

The conditions are not conveniences. With a power loss, a kill in an install or
a failed unlink the code does break what it promises (findings 1 and 3; runs
`IngestionPower`, `IngestionKill`), and with the upstream file as the input of a
run as well (finding 5, `PublicationUpstream`). A clock that stands still gives
a success and its predecessor one time, and "older" is false of them.

### Ingestion

*Type correctness* is not inductive alone. `current` only ever receives
`job[r].cand` or `job[r].prev`, and `Success` copies `rawRef` and `normRef`,
which are payloads and not `None` only because of the stage. `Located`, the
facts that hold at a stage (a candidate exists from `precommit` on, references
exist from `normalize` on), is conjoined: `TypeInv == TypeOK /\ Located`.

*Mutual exclusion* rests on the identity of the lock. `Serial` says that running
calls have distinct numbers, that neither they nor the lock exceed `runs` (so a
new call is different from all of them), and that a runner past
`_acquire_lock` is the one the lock names; two such runners have the same
number and are one. An operator clears only a lock that no runner owns, and a
lock left behind is never removed by the wrong run because `_release_lock`
compares identities. `LockInv == TypeInv /\ Serial`.

*Marker resolution* needs that everything that can become the marker resolves:
`PriorResolves` (the marker loaded at preflight, which a rollback restores) and
`CandidateResolves` (from `precommit` on). Since artifacts are immutable, an
entry that is held stays held across every install (`WritesKeep`), and a
failure after a link only touches an entry that was not there.

*Results.* `TrackInv` adds to `LockInv` what the owner of the lock knows of
`current` at each stage (`Informed`): from the preflight to the commit it is the
prior marker, from the commit to the release it is the candidate, and in the
handler one of the two, as the exception and the local variables tell. The prior
marker is archived from the end of the preflight on. `MarkerTimed` adds that no
marker was completed later than the clock says. What a caller is told, and the
archive of what is superseded, is then read off the stage. The cause of a stale lock
is a property of steps: most of them keep the owner of the lock at work (`GoesOn`,
`StageGoesOn`, `HandlerGoesOn`), and of those that end a call each gives the lock back or
is one of those that `LeavesLock` lists.

*History.* A marker is one that is active, archived, or in a local variable of a
call (`Marks`). `NumberInv` says that each has the number of the one call that
built it, and that a call does not meet its own number before it commits. On it
rest `LinkInv` (the predecessor of each is archived, and older), `RefInv` (what
each marker, receipt and call references is preserved), `FailureInv` (a failure
receipt is of a call that is over, and nothing that could be active again has
its number unless it says so) and `NameInv` (the name under which a next
preflight archives a marker holds that marker or nothing).

*Refinement.* `Init` maps to `Init` of `ActiveDataset`; every action maps to
`Activate`, `Archive`, `Settle`, `Withdraw` or a stutter, from `TrackInv` and
`MarkerInv`.

### Lineage verifier

A step of `LineageNext` is a step of `Ingestion` without a power loss or it
leaves the store alone, so `NumberInv` carries over. The two properties are about
what a reader without a lock has put together from reads at different moments;
`SeenInv` says of each read what it is still worth. `LockSeen` (with `Held`): as
long as no failure has been injected since the verification began, either no
call has the lock and what is active has been active without a lock, or the call
that has it knows a prior marker of which that is true and has a candidate that
nobody can have read of the history, or is about to return its success.
`MarkerSeen`: the marker that was read was active without a lock, or is about to
be, or is not in the history, where the replay will look for it. `HistorySeen`:
nothing that was read of the history is gone, and a success that is new is not
older than the marker. `ChainSeen`: what was replayed still replays, since an
archived artifact stays.

The other two are of what the callbacks of a year check. `CapacityInv` says that
there is a place for one entry more (`Spare`) from the preflight of a call until
it writes its receipt, and as long as what is active is not archived: a preflight
archives the prior marker before it looks for room, so one place is enough for
whichever receipt comes next. Only the receipt of a failed rollback has none.
`YearInv` says that every marker which is
active, or may become or be restored as active, ends a chain of the archived
successes before it (`ReplaysTo`). A step that builds the candidate extends the
chain of the marker under which `validate_history` checked it; all other steps
keep the history before every such marker.

The converse of `AcceptedLineage`, that what is refused has one of the causes
that the runs do not rule out, needs `CauseInv`, which is of stores without a
failure so far. What a call may put back, or what is active if no call is that
far, is archived and no success is later (`Topped`), there are no failure files
and no second links (`Tidy`), and every success has its place: directly after the
one whose artifact it names, and not a regression of it (`Placed`). `Placed` says
this of two receipts and no ordering, because two successes at one time have two
orderings; without such a tie there is only one (`OneOrdering`), and it is a
chain (`PlacedChain`). While nothing disturbs a verification, what it has read is
what is there (`StillThere`). So each test that the verifier makes comes out the
same as on the store, and those that fail are the causes listed.

### Context activation

The two sources change independently, so every fact about a pair has to say how
long it stays true. `CoreInv` has the shape of each source. Of the joined one
(`JoinedInv`): every generation was put over an earlier one, what the history has beyond the
active one was withdrawn, and only a run that breaks withdraws what is in the history; the
same of the context (`ContextInv`), whose marker goes to the end of its history. A joined
generation that a verifier accepted is `Good`: it is archived and its past replays, and that stays true
(`JobInv`, `DerivedInv`), because an archived generation stays and a later one is sorted
behind it. `ReplayInv` says that the context history replays at every prefix. `SpanInv` is of
what was settled around a commit: a full job has kept one generation, or another one has
replaced it for good (`Dead`), and then the check after the commit does not see it again. For
the reader there are `ViewInv`, `PairInv` and `QuietInv`: what it holds was active when it read
it, the ghosts `coexisted` and `disturbed` record what happened in between, and if nothing did
both markers still stand. A reader that was not disturbed then refuses for one of the causes
listed, since a store that is not spoilt has its active generation at the end of a history
that replays.

`DatasetImplemented` is what ties this to `Ingestion`: every step that a run of
`run_ingestion` makes is one that the joined source may take here. That the lock of a source
goes with those steps is `LockExcludes`.

### Report side

There is no lock, so an invariant on the files alone is not inductive: a
command that read a file long ago may write it back at any time. `CoreInv` says
of every store that it is torn, missing, or `Sound` with respect to what people
did so far (`World`), and of every running command, at each of its file
accesses, that the contents it is about to write are `Sound` (`Writes`) and that
its other locals are what its access needs (`Moderates`, `Deletes`,
`Publishes`). A deletion that is acknowledged while alone is the step that
changes what is sound; `Solo` says what it has cleaned by then, and `AloneOK`
that no other command can hold an old copy. `BasisInv` carries the vetting of
the rows to the published dataset, and `WholeInv` follows the publisher that is
alone through its reads and writes.

### Live site, pages, releases and predictions

In `Algorithms` a behaviour belongs to one part, so each invariant begins with
the name of its part and every step of another part leaves its variables alone.

*Live site.* `SiteInv` says of every fetch that is done what its answer showed
(`FetchHolds`): the manifest and the deployment record name the build they came
from, so a mixture can pass only if the reviewed build was served at the first
and at the last fetch and another one between them; `Returned` is that case.

*Studio and form.* `StudioHolds` has for the claim what `ClaimGrounded` says of
the result: its tier is that of the selected evidence also when the result is
gone. The handoff is the one of the claim on the screen, which is what the
dossier needs. `FormHolds` says that the report that was submitted last has the
highest number, and is the only one on its way while nothing overlapped.

*National page.* A link is not the inverse of a view: it omits a comparison with
California or Texas, and the page that opens it puts the selected state in the
first place. `AtlasInv` therefore says of every view that is shown that it is
normalized, and that California is compared first only while California or no
state is selected (`Follows`); without that the link of a view gives
another one. Of every entry of the history it says that it is the link of some
view that can be asked for, so back and forward lead to a view that is shown. The
ranking is by rank: the order by count and name is total and strict, so the ranks
of n states are the numbers below n (`Enumerated`), and each state has one place.

*Loads of the national page.* A handler starts a load and returns; what the page
shows is repaired later, by the reactions of promises of which some belong to clicks
that have been overtaken. `PageInv` says what each request that waits still stands
for. Of a kind one request at most is current, and a current release is of the year
of the page (`PageAsked`), so nothing older draws (`PageLoads`). The URL is the view,
except while a release is on its way that will write it (`PageShared`); a panel is
about the selected state, except while a profile of that state is on its way, or the
reaction that will select the state it is about (`PageProper`). A profile is drawn
only when the artifacts of all years are held (`PageProfiled`), so a step through
the history loads no year after that. Reactions run before the next event: `Follow`
takes the newest of those that are due, and after it none is (`PageQuiet`), which is why
an artifact that is held has nobody waiting for it.

*City page.* A panel shows what it was drawn from, and not all are drawn when something
changes: a sort redraws the table only, a catalog that arrives in a print everything.
`CityInv` says of the table that it is what would be drawn now, of the other panels
that they tell of the streets of the dataset in whatever order (`CityPanels`), and of
all that their words are those of the page; and of a print under way that the filter is
empty and the reader's view is kept (`CityPrint`). The order of the table is strict and
total because ids differ, so a list has every street at one place (`SortedIs`,
`ByRateIs`). The marks of a translation nest by induction over its pieces: the depth of
the stack is what was opened less what was closed (`MarksNest`).

*Releases.* A directory that verifies has every file its corrections name
(`DirectoryHas`), so two releases with one correction have its bytes in common
(`CountyInv`). For the states no invariant is needed: the verifier alone holds
the directory to the counts of the first index (`AcceptedAgain`), and a ledger
that the tool built is the one it wants (`LedgerVerifies`).

*Registry.* The code compares adjacent revisions only, and the property is about
any two. `HistoryHolds` is kept by every edit: the successor of a contract names
its digest, so only the last one can be amended (`Amended`), and a new last one
is compared with the one before it, which is already in order with the rest.

*Preregistration.* `JobHolds` follows the one running command: it writes a day
that has no artifact, and then the manifest of the artifact it wrote.

### What is counted

*City context.* The context is one expression of its input, so the theorem is a
lemma about that expression (`ContextHolds`) and an invariant which says that the
result is the expression. Two parts of it are not obvious. The snap decision looks
only at what the index returns, and the property is about the whole network:
`SnapDecides` shows that no segment beyond the decision radius can win, tie or
break a tie. And the validator bounds the sum of all cells from both sides by the
number of crashes: `DoubleCount` counts the pairs of a crash and a cell once by
cells and once by crashes, and a crash is in one to six cells. Sums are those of the
community module `FiniteSetsExt`, which chooses a recursive function on the subsets
of the set; `SumsExist` shows that there is one, and `SetInduction`, from the least
member of a set of numbers, gives the sums their laws (`SumStep`, `SumSplit`,
`SumBounds`, `SumPlus`).

*The audit of a dataset.* The rules are about counts, and every count that is
published is a count or a sum of counts of which none is below the floor: so
neither is the sum (`FloorsAdd`, `CorridorsKept`), and publishing never refuses
what it has built (`PublishedIs`). `OwnViews` and `SamplesHold` say what each rule
says of the views of one run; the audit of a mixture then depends on which run
wrote the sidecar. If the rules of the dataset pass, the digest binds the dataset
to that sidecar, and the dataset is that of its author, under its floor and its
small-sample bound (`AuditHolds`). The change report is proved segment by segment:
what a vintage has of a segment is one feature or none (`FoundAt`), and each cause
follows from the order of the tests that give it (`ClassifiedIs`, `ReportHolds`). The
corridor view enters only through its names, as in the code: no digest binds it.

*The tier of a city.* `TierIs` says of each tier what it takes, and `TierFalls` that a
lost partner, fewer observed segments and more stale sources never promote: each
takes something from what the better tier needs, and the counts of observed
segments are those of a subset (`FewerReach`). `CoverageHolds` shows that each change
of the input is one of these.

*Events.* The reports are settled one after the other in the order of `Chronological`,
and `Enumerated` shows that this order lists each of them once. The invariant of that
induction (`DedupedIs`) is about the first `i` reports: each is kept or removed and none
is both, no two kept ones repeat each other, a removed one repeats a kept one before it,
and each is listed after the ones it comes after. The recursion over the places of a
list is a recursive function, and `SettlesExist` shows that there is one; the library's
induction cannot be applied (it takes an operator as a parameter), so `StepByStep` has
the induction as a set that 0 is in and that every step stays in. `MembersAre` carries
what is true of the reports over to the records, which have only their ids.

*Clusters.* The procedure takes a prefix of the segments by their p-values, and the
property is about sets. `StepUpFinds`: the prefix keeps its promise; and if a set of `c`
segments keeps it, its largest rank `q` is at least `c`, so `q` passes, and the set is in
the prefix that ends at the last rank that does. The stricter correction promises the
same at the level divided by a number that is at least 1 (`HarmonicIs`), so what it finds
keeps the weaker promise, and is in the largest set that does (`StricterFinds`): this is
the subset that the docstring of `benjamini_yekutieli` claims (`src/honest_rates/hotspot.py:94`).

*Corridors.* A component is the smallest set that is closed under touching, so two of
them are one or disjoint (`ComponentsApart`). Of a chain the property says that it lists
all of its corridor; the code only walks on to a neighbour it did not come from.
`WalkMeetsOnce` shows that such a walk meets no segment twice: the first it met again
would have three neighbours, or be the start of a ring, and a walk that has come
back to its start has closed off a set that is not yet the whole component
(`ClosedWalk`). `WalkGoesOn` and `WalkExists` show that there is a walk, so a corridor
whose members touch at most two others has a chain (`ChainsAre`).

*The join.* The code goes through the person rows once, and the property speaks of sets
of rows. The invariant of the induction (`PersonIndexIs`, by `StepByStep`) is about the
first `k` rows: either one of them was refused, which `RowRefusedIs` relates to the
files, or the summaries are the counts of those rows (`Tally`). After the last row the
deaths of a crash are compared with its own record, and the refusals together are the
relation `Coherent` (`CoherentIs`, `PeopleAre`). Each total of people is a sum over the
modes of the sizes of disjoint sets of rows, so `PartsAddUp` counts each row once. The
artifact lists its records in the order of their cases (`RecordsListed`, from
`Enumerated`), and its sums over that list are the sizes of the same sets
(`SumsOfRecords`). The validators bound the crashes that were left out by the people left
out with them: each brings at least one, since no crash of two files that agree is
without people (`LeftOut`). The gate and the lineage verifier differ only in the order of
their questions (`SameReasons`). For a release that only adds, each row of the old files
has a place of its own in the new ones (`NoFewer`), so no count is smaller (`RowsStay`,
`CountsStay`, `ModesStay`). The first statement of this said *added people* and not
*added people of accepted crashes*, and is false: people who are added to a crash that
is rejected are excluded people, and the gate counts those as well.

*The documents.* Every number of every document is the size of one kind of set: a
*contribution* is a crash of the snapshot with one of its modes (`Shares`), it has a place
(state, county code and mode), and a cell counts the contributions at its places
(`CellsCount`, `SumsCount`). Sums over cells are then sizes of unions, and regroup by
whatever key each contribution has (`SharesAddUp`). With it the state path and the county
path are two partitions of one set, so their totals are equal (`CountyTotals`). The
crosswalk regroups the codes of a state by county; that it counts no contribution twice
takes the uniqueness of a row and of its county, and that it loses none takes a row for
each code in use (`RowsAre`, `CountiesAddUp`). The national document passes its own
validator (`NationalAccepted`) because each withheld cell has between 1 and `k - 1`
crashes (`CellsSplit`), each crash is in a state and at least one mode (`CountsAre`), and
all states are covered. The public document has the same numbers, and its validator
refuses exactly the case of one withheld cell; the page, the index and the audit then
find nothing else to refuse (`StateAccepted`). The public shard of a state shows what the
snapshot counts through the codes that the review maps to a county (`TrueCountIs`,
`ShardIs`).

*What is withheld.* The proof builds the other snapshot. A shard is determined by which
states are covered and by the counts that reach its floor (`ShardShape`, `ShardsAlike`), so a
change that stays below the floor cannot be seen. A count that stays below the floor with one
more gets a crash of that one mode at a code of the county (`CrashMore`). A count one below the
floor loses one: one of its crashes loses the mode, or is removed if it had no other
(`CrashLess`); the floor is at least 3, so the state keeps a crash and stays covered. No other
count changes, because a code is counted for one county only (`CountedOnce`); what the two
changes do to the contributions of a snapshot is `AddedProjected` and `RemovedProjected`.

### Assumptions

- `StoreAssumption`, `RunAssumption` (`PrivateStore`, `Ingestion`): kinds of
  payloads and receipts are disjoint from `None`; the normalizer is a function
  of the payload (the code requires it to be deterministic); attempts are
  numbered.
- `LineageAssumption` (`LineageVerifier`): the bounds of a source and the
  revisions of a contract are numbers. `YearsAreChains` and `RejectionsHaveCauses`
  have the hypothesis `Reversible`, that no two archives have one artifact: an
  artifact carries the digest of its archive (checked at `verified_outcomes.py:583`
  and `:854` and `verified_fars_years.py:243`), and two successes with one artifact
  and different archives would not be one generation.
- `ContextAssumption`, `ClockAssumption`, `GenerationAssumption` (`ContextActivation`):
  counts, bounds and times are natural numbers, `None` and `Settled` are not generations or
  payloads; completion times do not go back, and equal ones are sorted by the attempt id.
- `StoreAssumption`, `EntryAssumption` (`ReportStores`): the initial files are
  what earlier commands can have left (at most one report that was approved and
  published, and valid); the arguments of a command are of the kind its parser
  asks for; `Torn` and `Missing` are no contents.

- `LiveSiteAssumption` (`LiveSite`): the manifest and the deployment record of
  a build name that build; the files that control the host are published files
  and never probes.
- `StudioAssumption`, `StateReleaseAssumption`, `ContractAssumption`,
  `PreregistrationAssumption`: no file is called "none"; the corrected year is
  one of the published years; versions are numbers; an analysis has finitely
  many segments.
- `ContextAssumption` (`FarsContext`), `ContextTaskAssumption` (`Algorithms`): distances
  are numbers; all records are measured against one network and have hours and at most
  six modes of the source, as `_record_fields`, `_part_of_day` and `_modes` check; the
  index returns every segment within the limit and the margin, as the docstring of
  `_local_distances` says (`point_snap.py:295-300`).
- `AuditTaskAssumption` (`Algorithms`): the two runs count over the same finite set of
  segments, a low-confidence report is one of the reports (`PublishInput`), and the
  configured bounds are what `config.py:326-327` lets through; a registry and its
  input have the shape that `_parse_source` gives them, with at most one day that was
  asked for (`CoverageRequest`).
- `PipelineAssumption` (`ReportPipeline`), `ReportTaskAssumption` (`Algorithms`): distances
  and times are numbers, no segment is called `NoStreet`, and the reports of a run have
  different ids (`PipelineRequest`), as each form gives its report a new one
  (`submit.js:132`); the pipeline itself keys by id and does not look. What is tested is
  finitely many segments of the network that have a count and two ends, at a level that is
  a fraction (`ClusterRequest`).
- `JoinArtifactAssumption` (`JoinArtifact`), `JoinTaskAssumption` (`Algorithms`): the rows have
  been parsed (`JoinRequest`; no case number is "refused", the model's word for an archive that
  was refused), crashes that are accepted have a date and an identity and so a place in the
  order of the artifact, limits are shares, and a release that is replaced was accepted.
- `DocumentAssumption` (`FarsDocuments`), `DocumentTaskAssumption` (`Algorithms`): the code
  books of states, modes, county codes and counties are finite, and no code is both a county
  and a sentinel; the floors are positive, and the public one is the larger and at least 3 (it is 10:
  `fars_public_context.py:42`, `fars_county_publication.py:58`). A snapshot has
  been verified (`DocumentRequest`): finitely many kinds of records, each with a state and a
  code of the code books and at least one mode (`joined_outcome_artifacts.py:256-257`). A row
  of the crosswalk is of a covered state and of no sentinel
  (`fars_county_crosswalk.py:243-248`); whether the crosswalk resolves is not assumed.
- `CityCoverageAssumption` (`CityCoverage`): a city has segments (`loaders.py:121` refuses
  an empty network), and finitely many.
- `AtlasAssumption` (`AtlasViews`): the states have different names, a cell has
  one count or none, and the links that are opened first ask for views of
  published years, known states and modes, with no more saved states than the
  page keeps. They are links that the page can have written: one typed by hand
  that states a default (`a=CA` beside `state=NY`) is no `ViewLink`.
- `CoveragePageAssumption` (`CoveragePage`): the newest year of the index is one of its
  years; no year or state is called what the page says when it has none.
- `CityPageAssumption` (`CityPage`): a dataset has finitely many streets with different
  ids, and one that is significant has a rate, as `report.py` publishes them; messages
  are sequences of pieces.

TLC evaluates all of them on every run that extends the module.

## 6. Only model-checked, abstracted, not modelled

*Only model-checked:* every property of section 3 that section 5 does not list.

- `RunsEnd` is liveness under fairness, which is out of the prover's reach.
- `MarkerPreserved` is of one failure (`MaxFaults = 1`); with two it is violated.

*Abstracted:*

- `Ingestion`: temporary files appear only as the second link of their entry;
  byte limits are a nondeterministic outcome of the preflight. Callbacks return
  or raise, except those `LineageVerifier` defines. `Normalize` is one function:
  a nondeterministic normalizer is outside the contract of the code. Other
  programs do not write into the tree (it is owner-only); files of other owners,
  symbolic links and special files are outside the model, and so are the checks
  that refuse them. The directories exist.
- `LineageVerifier`: the parsing of a receipt is its resolution to a record; one
  verification per behaviour; the history of `fars` and `fars-joined` may
  outgrow the verifier's limit, as in the code.
- `ContextActivation`: digests and package formats are equality. A generation
  is bound to one joined generation, and "both markers were archived at one
  moment" is not claimed: a killed run leaves an active marker that is not. What a run
  that breaks leaves in `receipts/` is one fact, whatever name or link it is. A run has
  one completion time and one place in the order of times and ids, and the regression
  check of the joined chain is left to the run that put the marker.
- Report side: one raw file stands for the raw directory; the retention window
  is a set of expired reports; the queue's flags and the read-only bundle of
  `export_reports` are left out; of the metadata only the digest of the dataset
  and the inputs of the manifest are kept.
- Algorithms: places are on a line, p-values are integers, a crash is its case
  number and what is counted of it. What computes p-values, rates and intervals
  is floating-point arithmetic, which TLC does not have.
- Pages: a fetch ends or fails, focus and drawing are left out, and text is the
  language it is in. A reader who types is an event that changes one control.
- Releases and registry: bytes, digests and sizes are one thing, equal or not.

*Not modelled:* the components marked so in `PROJECT.json`, each with its
reason: floating point and geometry, formatting, or pure I/O.

## 7. The plan

What the model covers is described above, and every safety and action property that a passing
run checks is also a theorem, except `MarkerPreserved`, which is of one failure only. `RunsEnd`
stays with TLC. What the model could still gain is in
`PROJECT.json`: the parts of the components that are marked partly modelled, the planning of
counts (`count_plan.py`) first.
