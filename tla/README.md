# PackBreaker in TLA+

PackBreaker takes finished season packs and collections apart: it looks for
the torrents of the single parts on private trackers, proves that the files on
disk are those of the torrent, puts hard links, symbolic links or copies in
place and hands the torrent to a downloader to be seeded.  Each item goes
through a dozen transactions, and between any two of them a user may review,
retry or delete it, a downloader may answer late, and the process may stop.
These modules are about that: the order of steps, not the data.

All paths below are relative to `src/backend/app/` unless they start with a
top-level directory of the repository.

## 1. Inventory

The product that `main.py` wires together consists of the following parts.
The last column names what makes a part correct.

| part | state it keeps | operations | what makes it correct |
|---|---|---|---|
| driver (`application/unpack_driver.py`) | none but its tick lock | a tick: discovery, matching, verification, auxiliary files, planning, files, seeding, then the projection of results | every phase finds the work another one left; a failing batch costs only itself |
| discovery (`unpack_discovery.py`) | `discovery_complete`, cursor, item rows | one page of the frozen source per tick | every source object becomes one item or is left out by a rule |
| matching (`unpack_matching.py`) | item status, generation, candidates, retry moment | claim, search, result, automatic retry, deferral, template reuse | a result is written only for the generation it was searched for |
| content verification (`unpack_content_verification.py`) | item status, verification status of candidates | claim, fetch, hash, result, fallback to another candidate | nothing is verified that was not the selected candidate |
| auxiliary files (`unpack_auxiliary.py`) | `auxiliary_state`, journal rows | stage a partial torrent, poll it, verify, remove it | one staging torrent per item, removed before the item goes on |
| planning (`unpack_execution_plans.py`) | frozen plan, `execution_state` | build and persist a plan | a plan is made for a verified candidate and for one version of the item |
| files (`unpack_materialization.py`, `infrastructure/safe_filesystem.py`) | journal rows, directories and files | reserve, place each file, prove them again | nothing foreign is overwritten or adopted; what is recorded exists |
| seeding (`unpack_seeding.py`) | journal rows, checkpoints, the torrent in the downloader | ADD, VERIFY, START, recovery, completion | no RPC twice, no adoption of foreign torrents, START only after a real check |
| item actions (`unpack_item_actions.py`, `unpack_manual_candidates.py`) | the same rows | review, retry, bulk retry, delete, add a candidate | a decision is never lost, and never undoes something that has left the process |
| definitions, executions, monitor (`unpack_definitions.py`, `unpack_executions.py`, `unpack_monitor.py`) | definitions, executions, due times | create, trigger, list | one execution per due moment, with the source as it was then |
| templates (`unpack_templates.py`) | versions with their seeds, import jobs | import, append, restart | a version is ready only with every torrent that was asked for, and frozen then |
| sites (`infrastructure/site_reliability.py`, adapters) | circuit state per site | acquire, record success, failure, cancellation | one half-open probe, given back when it is cancelled |
| site accounts (`sites.py`, `cookiecloud.py`) | site rows, encrypted credentials, the queue of tests | edit, test, enable, import of cookies, risk control | what is shown as tested is what is configured; credentials stay with their tracker |
| downloaders (`infrastructure/adapters/downloaders.py`) | none | RPCs to qBittorrent and Transmission | a lost answer is reported as unknown |
| notifications (`application/notifications.py`, repositories, driver) | outbox rows, attempts | project, claim, deliver, retry | each result once in the outbox; delivery at least once |
| movie deduplication (`movie_dedup.py`) | scan jobs, an exchange journal | scan, decide, exchange files, recover | an exchange that stopped half-way is completed or undone |
| upgrades (`application/system_upgrades.py`, `infrastructure/transient_updater.py`, `docker_updater.py`) | a state file, containers, a helper | admit, switch, verify, roll back | one application runs, on a database of its version |
| database file (`infrastructure/backups.py`, `upgrades.py`) | file, write-ahead log, backups | back up, restore, migrate | nothing committed or restored is lost |
| backups (`application/backup_schedule.py`, `infrastructure/backups.py`) | the archive, the policy with its last success and failure | scheduled and manual backups, retention, deletion | once there was a whole backup there always is one |
| the rest (site statistics, AI agent, Telegram, auth, health, overview, HTTP API, frontend, migrations) | rows of their own | periodic polling, queries, sessions | mostly I/O |
| legacy task engine (`application/task_*.py`, `downloader_operations.py`, `transmission_operations.py`, `filesystem_operations.py`) | tasks, operation journal, schedules | add, check, start, cancel; link, isolate, roll back; scan a directory | files are rolled back only when nobody uses them. Tests use it; `main.py` does not wire it |

**How they interact.**  The services share no memory but the database.  Every
service method is a chain of short transactions with awaited calls (site,
downloader, hash, file system) between them; a service carries a snapshot of
the item across the await and checks it again (a fence) in the transaction
that writes the result.  The driver calls the services one after the other
under a lock; the API calls the item actions at any time.  An execution
status, recomputed by every service in its own way at the end of a
transaction, decides which phase selects the execution in the next tick.
Writes to other systems go through `UnpackExternalOperationJournal`: intent,
effect, confirmation by reading back.

**What is hard here.**  Fences that compare too little; the seven ways to
recompute one status; a claim that is a committed status without an owner; an
RPC whose answer is lost; an observation used after the row it is compared
with was written; a crash between two of the three steps of the journal; an
API call in the middle of anything.  `PROJECT.json` lists them as hazards, each
with its line and the properties that would notice.

## 2. Modules

| module | what it is |
|---|---|
| `ExternalOperation` | the promise of the operation journal: announced before it is made, made once, confirmed or handed to a human, and that hand-over is final |
| `UnpackPipeline` | one execution through all phases, the item actions and the driver |
| `UnpackSeeding` | the seeding service with the downloader around it; implements `ExternalOperation` |
| `UnpackMaterialization` | directories, links and copies with the disk around them; implements `ExternalOperation` |
| `UnpackStaging` | the staging torrent of missing small files |
| `UnpackDiscovery` | the pages of a source while somebody writes to it, and the items made of them |
| `UnpackSearch` | the search of an execution's items on its sites: queries, pages, retries, the cache, refusals |
| `ContentCheck` | the walk over pieces and trees while somebody writes to the files |
| `UnpackDefinitions` | definitions, the monitor's trigger, executions as rows |
| `UnpackTemplates` | imports of a template library |
| `SiteCircuit` | the calls to one site: breaker, slots, interval, cache, retries |
| `SiteAccounts` | sites and their credentials: users, tests, CookieCloud, risk control |
| `NotificationOutbox` | one channel and its outbox |
| `MovieExchange` | replacing duplicate movies by links |
| `SystemUpgrade` | the upgrade by a helper container |
| `DatabaseSwitch` | restore and migration of the database file |
| `BackupSchedule` | scheduled backups and the retention of old ones |
| `DownloaderOperations`, `TaskEngine` | the legacy engine: the operations of a task on its client, and on top of them (`EXTENDS`) the task's stages and its cancellation |
| `FilesystemOperations` | the legacy engine: links, isolating copies, rollback |
| `TaskMonitor` | the legacy engine: scans of a monitored directory |
| `MCServices` | composes the fifteen services that share no state with the pipeline's modules, for TLC |
| `MCUnpackSeeding` | symmetry of the workers for TLC |
| `MCUnpackDiscovery`, `MCUnpackSearch` | the small instances of two runs of section 5 |
| `UnpackSeedingProofs` | the theorems about `UnpackSeeding` |
| `UnpackPipelineProofs`, `UnpackMaterializationProofs`, `TaskEngineProofs` | the theorems about the pipeline, placing and the legacy engine |
| `ServicesProofs`, `UnpackServicesProofs`, `BackgroundProofs`, `OutsideProofs` | the theorems about the services of `MCServices`: site, search, outbox and database; definitions, templates and staging; upgrades and the monitor; the files of a task and movies |

`UnpackPipeline` contains seeding, placing and staging as opaque jobs; their
own modules contain of the pipeline only what touches an item with journal
rows (retry and delete).  They meet at the item statuses and at the fence
(status and version), which all model in full: `Seed` of
`UnpackMaterialization` is the hand-over `UnpackSeeding` starts from, and
`ProofStands` is what its field `materialized` assumes.  `Advance` of
`UnpackDefinitions` stands for the pipeline.  In the same way the pipeline's
`Discover` and its searches are single choices of an outcome;
`UnpackDiscovery` and `UnpackSearch` show how these come about.

Mutants, the operators called *Mutant* in a comment, are changed forms of the
operator that follows them: a property is trusted when TLC finds it violated
with the mutant in the operator's place.

### UnpackSeeding and the code

A step is one transaction or one awaited call.  A worker is a run of
`advance_next_batch`; the driver normally has one, but a cancelled tick whose
thread still runs, and a second process during an upgrade, make two.

| code | model |
|---|---|
| item row: `status`, `execution_state["stage"]`, `version`, `last_error_code` | `status`, `stage`, `version`, `errorSafe` |
| `UnpackExternalOperationJournal` (after deletion, its audit copy) | `journal[item][op]`: `st`, and of the snapshots `ack`, `chk`, `grace`, `before`, `whole` |
| `_materialized_proof` of files and their rows | `materialized` |
| the torrent with the item's hash: owner tag and save path, state | `torrent`, read through `Observe` |
| `_prepare`, `_current_stage` | `Pick`, `PrepareFails`, `Advance` |
| `_record_intent` | `RecordIntent` (fence, proof of files and unique row in one transaction) |
| `_mark_applied`, `_update_after_snapshot`, `_mark_reconcile` | `Commit`, with `Writes` for the rows each may change |
| `_ensure_added` | `AddLoad`, `AddProbe`, then `RecordIntent`, `Send`, `Reply`, and `AddConfirm` or `AddRecover`, `Added` |
| `_ensure_verified` with the polling loop and the grace time | `VerifyProbe` ... `Verified`, `AwaitRecheck` |
| `_ensure_started`, `_mark_completed` | `StartProbe` ... `StartRecover`, `SetStarting`, `Complete` |
| `_mark_error` | `MarkError` |
| `retry_match` and `delete_item` on an item with rows | `Retry`, `Delete` |
| qBittorrent and Transmission (external) | `Execute`, `RecheckBegins`, `CheckEnds`, `Downloaded`, `UserActs` |

Two history variables, `sent` and `created`, and the field `attested` exist
only for the properties.  All items want the same torrent, the worst case for
ownership.  The state `downloading` stands for every state the adapters do not
classify as stopped, checking or seeding.  Listing the batch and preparing an
item are one step (`Pick`): the item is read again in the second.

### UnpackPipeline and the code

| code | model |
|---|---|
| item row, candidates, auxiliary state, plan | the record `item[i]` |
| kinds of journal rows (the deletion, review and retry guards) | `effects` |
| what a service carries across an await | `job` (item, version, generation, candidate) |
| `list_*_ids` of each service | `Selected`; its item list is `Eligible` |
| `tick` | `EnterPhase`, `PassPhase`, `EndBatch`, `BatchFails`, `Project` |
| `_refresh_execution_state` of discovery, matching, verification, auxiliary, planning/files/seeding, item actions | `RefreshDiscovery`, `RefreshMatching`, `RefreshVerification`, `RefreshAuxiliary`, `RefreshExecuting`, `RefreshActions` |
| the two fences of the code: status, generation and candidate; these and the version | `Current`, `Unchanged` |
| claims, results, errors of each phase | `MatchClaim` ... `SeedFails` |
| `review`, `retry_match`, `retry_eligible_items`, `delete_item`, manual `add` | `Approve`, `Reject`, `RetryMatch`, `RetryAll`, `Delete`, `AddCandidate` |
| the process stopping anywhere | `Crash` |

The content of searches, hashes and plans is a choice among their outcomes.
The history field `proven` remembers for which generation and candidate a
verification last succeeded.

### UnpackMaterialization and the code

| code | model |
|---|---|
| item row with its stage, version | `status`, `version` |
| the journal row of an item's file, of the directory | `row`, `dirRow` (with its owner) |
| final and temporary name, directory, source file | `target`, `temp`, `dir`, `source` |
| `materialize_next_batch`, `_list_item_ids` | `List`, `InWindow` |
| `_reserve_and_load_plan`, `_ensure_directories` | `Reserve`, `RecordDirectoryIntent`, `MakeDirectory`, `ConfirmDirectory` |
| `create_hardlink_atomic`, `create_symlink_atomic`, `create_copy_atomic` | `Place`, `Fill`, `CheckAgain`, `Clean`, `Publish` |
| `_recover_materialization`, `_reuse_existing`, `_materialize_one` | `Recover`, `Reuse`, `LookAtApplied`, `Rescue` |
| `_mark_applied`, `_mark_reconcile`, `_mark_materialized`, `_mark_error` | `ConfirmFile`, `MarkReconcile`, `Finish`, `MarkError` |
| retry and deletion of an item; other users of the disk | `Retry`, `Delete`; `MeddleFile`, `MeddleSource`, `MeddleDirectory` |

A file is known by what it is worth to the plan: the planned one, a copy of it,
a copy that mixes two versions of its source, something else.

### UnpackStaging, ContentCheck and the code

`UnpackStaging` follows `_advance_item` of `unpack_auxiliary.py`: one look at
the client (`Look`), the decision what is next (`Decide`), one request
(`Send`), which the client executes, refuses, answers late or whose reply is
lost (`Works`, `SendFails`, `Arrive`), then the confirmation by another look
(`Check`).  `Poll`, `Verify` and `Finish` are the polling, the check of
everything together, and the result.  `MaySend` is the rule that a row
without a proof is never acted on twice.

`ContentCheck` is a pure algorithm made of steps, because somebody writes
between them (`Write`).  A file is a sequence of versions; a hash is taken for
the bytes it stands for, so that a piece is right exactly when its bytes were
those of the torrent.  `MapOne` is the mapping by name (the number of files
that carry it decides), `TakeSnapshots`, `NextPiece`, `OpenRange`,
`ReadRange`, `EndPiece`, `EndStream` the walk of version 1, `OpenTree`,
`ReadTree`, `EndTree` that of version 2, `Compare` and `Outcome` the end of
`_verify_claim`.  `CoversExactly` is a reference definition of the pieces a
file is part of.

### The services and the code

| module | state | steps |
|---|---|---|
| `UnpackDiscovery` | cursor, `discovery_complete`, items; the disk; the walk and its heap | `discover_next_page`: `Begin`, `Commit`; `_discover_downloader`, `_discover_all_matching`: `OpenUnmapped`, `OpenDirectory`, `OpenFile`, `OpenNothing`, `EndPage`; `scan_source_inventory_page`: `Visit`, `ReadFails`; `_discover_selected`: `Select`; `Stop` |
| `UnpackSearch` | items, site rows, refusals, the cache of each adapter, one coroutine per site | `_claim_next_item`: `Claim`, `ClaimParked`; `search_one`: `Capabilities`, `Ask`, `AskAgain`, `AskLast`; `_finalize_search`, `_schedule_automatic_retry`: `Finalize`; users: `SetEnabled`, `Retry` |
| `UnpackDefinitions` | `definitions`, `executions`, what the monitor waits for | `create`, `update`, `delete`, `run`: `Create`, `Update`, `Delete`, `Run`; `trigger_due_definition` before and after the awaited list: `Load`, `Trigger`, `TriggerDirectory` |
| `UnpackTemplates` | versions, jobs, the driver's tick | `create_import_job`: `NewJob`, `CreateTemplate`, `AppendToTemplate`; `process_next_import_item`: `Take`, `Record`, `Failed`, `Limited`; `Crash` |
| `SiteCircuit` | `open_until` (none, future, past), failures, the probe, cache, coroutines | `search`/`_invoke`: `Start`, `LookInCache`, `TakeSlot`, `Check`, `WaitForRate`, `Begin`, then one of `Succeed`, `Unavailable`, `RateLimited`, `AuthFailed`, `InvalidResponse`, `Cancel`, `Escape`; `Reset` |
| `SiteAccounts` | rows, credentials, the setting, probes, the queue of jobs | `create`, `update`, `delete`, `set_enabled`, `record_unpack_risk_event`: `Create`, `Update`, `UpdateRest`, `Delete`, `SetEnabled`, `RecordRisk`; `test_connection`: `BeginTest`, `EndTest`; `sync_now`: `BeginRound`, `Apply`, `RoundFails`; the queue: `Enqueue`, `Drain`, `JobBegins`, `JobTested`, `JobProfiled` |
| `NotificationOutbox` | channel, its test, rows, the tick | `_upsert_message`, `list_due`, `mark_delivered`, `mark_failure`: `Accept`, `BeginTick`, `Load`, `ProviderTakes`, `Delivered`, `Failure`; `update`, `set_enabled`, `test_connection`: `Update`, `Rename`, `Enable`, `Disable`, `BeginTest`, `EndTest` |
| `MovieExchange` | files of A, names in B, pairs, journal, job, two threads | `_execute_pair`: `Load`, `LinkTemporary`, `Exchange`, `MarkExchanged`, `Verify`, `Unlink`, `Commit`; `reconcile_job_operations`: `Resume`, `Settle` |
| `SystemUpgrade` | state file, requests, helper, containers, database version | `start_upgrade`: `Enter`, `Accept`, `Boot`; `status`: `ReadStatus`, `WriteOver`; `DockerUpgradeExecutor.execute`: `Pull`, `Stop`, `Backup`, `RenameOld`, `Create`, `Start`, `Verify`, `RemoveOld` and the way back `UndoNew`, `UndoDb`, `UndoName`, `UndoStop` |
| `DatabaseSwitch` | file, log, backups, the switch | `restore_consistent_backup`, `upgrade_database_safely`: `BeginRestore`, `BeginUpgrade`, `Prepare`, `Secure`, `Rename`, `Clean`, `Undo`, `CleanUndone`, `GiveUp`; `Kill` |
| `BackupSchedule` | the archive, the policy, what the driver and the maintenance command are at | `BackupDriver.run_once` and the maintenance command: `BeginScheduled`, `BeginCommand`, `BeginRetention`, `RetentionEnds`; `create_consistent_backup`: `Copy`, `PublishDatabase`, `PublishManifest`, `CreateFails`; `plan_backup_retention`, `apply_backup_retention`: `Plan`, `RemoveDatabase`, `RemoveManifest`, `RetentionFails`; the policy: `EditPolicy`, `Record`; `Stop`, `Tamper` |

A wait for a provider, a tracker, Docker or a thread is two steps with
everything else in between; what runs on the event loop without an await is
one.

### The legacy engine and the code

`DownloaderOperations` has add, check, start and remove for qBittorrent and
Transmission with their journal rows, requests on the wire that may arrive
after their answer was given up, and users of the client.  `TaskEngine` adds
the coordinators of ADDING, CLIENT_VERIFYING and SEEDING, which end with a
compare-and-set of the task, and the cancellation that freezes a rollback plan
and carries it out.  `FilesystemOperations` takes apart what `TaskEngine` does
to files in one step, down to single system calls.  `TaskMonitor` is
`_scan_monitor_locked` with its checkpoint.  A request that is sent again while
the first one is still on the wire is one with it: the client knows a torrent
only once.

## 3. What TLC checks

| run | instance | properties |
|---|---|---|
| `seeding_race` | Transmission, 1 item, 2 workers, 1 fault, 1 call | `TypeOK`, `AtMostOnce`, `CompletedStays`, `KeepsPromise` |
| `seeding_items` | qBittorrent without client check, 2 items, 2 workers, 1 fault, 1 call | `AddIsOurs`, `ExecutionTruthful` |
| `seeding_live` | qBittorrent, 1 item, 1 worker, 2 faults, 2 acts of a user, 2 calls, fair | `RecheckReallyRan`, `StartAfterVerify`, `Settles` |
| `pipeline_quiet` | 2 items, one of them excluded by name, batches of 4, 1 automatic retry, no faults, no calls, fair | `TerminalTruthful`, `Settles`, `ResultAnnounced` |
| `pipeline_calls` | 1 item, auxiliary files for one candidate, 1 fault, 2 calls, 1 automatic retry | `PlansAreProven`, `EffectPinsCandidate`, `DecisionKept` |
| `placing` | 2 items in one directory, 2 workers, every storage mode, a window of 1, 1 event, fair | `PlacedIsSound`, `RowsAreTrue`, `NothingReplaced`, `KeepsPromise`, `Settles` |
| `task_engine` | both clients, 2 calls of each operation, 1 fault, 1 act of a user | `ChecksAreReal`, `NoHarmDone` |
| `services` | fifteen services, each from its first state (below) | one invariant for each, and `StrangersStay`, `ScanIsKept`, `SiteIsSpared`, `VersionIsFrozen`, `StartsAlone`, `RemovalRecognised` |

and four runs whose property is something the repository says of itself and
the code does not keep (section 5).  A property that joins several names its
parts, each of which has a comment and mutants of its own.

**Seeding.**  `AtMostOnce`: no ADD, VERIFY or START of an item leaves the
process twice, whatever crashes, times out, is retried or overlaps.
`KeepsPromise`: every row behaves as `ExternalOperation` says.
`CompletedStays`: a late worker cannot take a finished item back.
`RecheckReallyRan`: qBittorrent may show 100 percent from before the RECHECK;
that is not taken for its result.  `StartAfterVerify`: START is sent only
behind a confirmed verification of every piece.  `AddIsOurs`: only the item
whose own RPC created the torrent gets an APPLIED ADD row, although another
item or a user may add the same torrent in between.  `ExecutionTruthful`: the
execution reads COMPLETED only when all its items are.  `Settles`: an item
does not stay active for ever.

**Pipeline.**  `PlansAreProven` (`VerifiedBeforePlan`): an item past
verification was verified for the candidate and generation it has now; this is
what the reset of candidates, the withdrawal in reviews and the fences work
together for.  `EffectPinsCandidate`: an item with journal rows is not moved
to another torrent.  `DecisionKept`: a worker's result lands only on the
version its own last transaction left, although some fences do not compare the
version: the status they do compare is enough.  `TerminalTruthful`, `Settles`,
`ResultAnnounced`: left alone, an execution is not declared finished while an
item is on its way, every item ends or waits for a human, and the result
reaches the outbox.

**Placing.**  `PlacedIsSound`: only whole files get a final name
(`PublishedWhole`), and a confirmed copy is the program's own (`CopyIsOwn`).
`RowsAreTrue`: what was placed is known to a row for good
(`EffectIsRecorded`), and the rows seeding relies on still say so and are
right (`ProofStands`).  `NothingReplaced`: whatever stands under a final name
is left there.  `KeepsPromise`, `Settles`: as for seeding.

**Legacy engine.**  `ChecksAreReal`: a task is SEEDING only when the client
has really checked after it was asked to, and it is asked once.  `NoHarmDone`:
a torrent that was in the client before is not touched (`OthersUntouched`), a
start does not download over linked files (`StartWritesNothing`), files are
rolled back only when the removed torrent is gone (`RemovedBeforeFiles`).

**Services.**  They share no state, so that all interleavings of two of them
are those of each alone; `MCServices` follows one at a time, its `subject`.

| subject | instance | what is checked |
|---|---|---|
| `files` | 2 files, 3 calls, 2 faults, 1 act of others | `EffectsAreOurs`: a file isolated for repair never shares its inode again; no byte of a copy before the row proves whose it is; what a rollback reports is gone; no stop or repeated call makes a strange file ours |
| `monitor` | 3 paths, pages of 2, 1 write, 3 scans, 1 fault | `NothingMissed`: the watermark forgets nothing without a task; files are taken as the version that was left alone; NEW_ONLY leaves out the old ones.  `ScanIsKept` |
| `discovery` | 5 names, 3 torrents, pages of 2, every kind of source, 1 write, 1 fault | `NothingMissed`: no file of a source is skipped by its pages; a page holds the files that come next |
| `search` | 2 items, 1 site that has both, 2 queries of 2 pages, limit of 2 refusals, 1 retry, 2 wrong or failing answers, 1 act of a user | `VerdictIsTrue`: a candidate is given up only after enough empty answers, and kept once it was found.  `SiteIsSpared`: a site is asked no more in a search in which it has failed or given enough, and by no item before the time it asked for |
| `outbox` | 2 rows, one for a result that happens once, 2 attempts, 2 events, 2 edits, 1 fault | `DeliveriesAreTrue`: no event is lost to a message on its way, none announced twice; enabled means tested |
| `movie` | 2 files of A for one of B, hard links, 2 calls, 1 stop, 1 act of a user | `CompletedIsReplaced`; `StrangersStay` |
| `site` | 2 coroutines, 1 slot, 2 attempts, threshold 2, 4 calls, 2 mishaps | `BreakerIsTrue`: it waits for no probe that is gone; the announced state is its state.  `SiteIsSpared` |
| `upgrade` | 2 requests, 2 faults | `OneServiceStands`: never two containers on the database, none behind its version, and one stands at the end or help is called for |
| `library` | 2 templates, 2 torrents, 3 jobs, 2 faults | `LibraryIsComplete`: counts are true, none is skipped, READY is complete.  `VersionIsFrozen` |
| `database` | 2 schemas, 2 commits, 3 files, 2 faults | `DataIsFound`: file and log belong together, what was committed or restored is found, on the expected schema |
| `backup` | 2 backups, 2 days, kept for 1 day and the latest 1, 1 edit of the policy, 1 fault | `DataIsFound`: retention leaves a whole backup once there was one; the last success is there or a newer one; half a backup remains only after a stop |
| `unpack` | 1 definition, 2 configurations, 2 edits, 2 executions | `ExecutionsAreSound`: a frozen list is of the frozen source, enabled means scheduled, no orphans.  `StartsAlone` |
| `staging` | 2 faults, 1 act of a user, 1 retry | `StagingIsOwn`: every request once, nothing but the missing files, in a directory of its own, verified at rest.  `RemovalRecognised` |
| `content` | a film (1 or 3 bytes), padding or an empty file, an extra file; pieces of 2; v1, v2, hybrid; 1 write | `VerdictIsTrue`: verified means the same bytes, in the version the evidence names; a mismatch is real, and found; pieces cover what they overlap |
| `accounts` | 2 rows, one tracker with cookies and one with a key, 2 edits and imports together, at most 1 of them an edit, 1 risk event | `AccountsAreTrue`: OK means that what is configured works; credentials are neither lost nor left behind nor crossed; a test asked for is not dropped |

**Bounds, and why they are enough.**  Two workers: a row has one creator, so a
third worker can only repeat what the second does (the theorems below do not
depend on it).  Two items: the refreshes tell apart whether some, all or no
other item has a status, and a directory or torrent is shared or not.  Two
candidates: one to be selected and one to move to; the limit of three
automatic attempts is out of their reach.  One fault with a second worker, or
two with one, reach every place between intent, effect and confirmation.  Two
API calls in `pipeline_calls` can review and review again, retry and delete,
during any await.  `MaxRetries = 1` distinguishes the first search from the
last.  A `Batch` of four is more than two items need in a tick even when one
falls back to its second candidate; a `Window` of one is full with one item.
`MaxEvents` of `placing` is 1; two without the liveness property (2.5 million
states) find nothing more.  In the services a second coroutine, request or
thread is what can come between two steps of the first; a third finds the
same guards.  Files of 1 and 3 bytes against pieces of 2 make a file end in
the middle of a piece, fill one with its neighbour, and cross two.  Budgets
are constants of the modules and appear in the guards; nothing else is cut
off, but `SystemUpgrade` stops exploring once its state file was written over
by an old reading (section 5), and `SiteAccounts` imports only when the rows
are enough for it.

**Deadlock.**  It is checked for the pipeline, whose driver never stops.
The others really stop when everything is settled and the budgets are spent.

**Fairness.**  The driver loops for the life of the process and a tick always
ends (`WF_vars(Driver)`, `WF_vars(WorkerStep(w))`, `List`, and `Seed`, the
seeding phase that takes placed items over); time passes (`TimePasses`,
`GraceEnds`); the downloader executes what reaches it and ends its checks
(`Execute`, `RecheckBegins`, `CheckEnds`).  In the pipeline what is waited for
outside is one choice among others of a poll, so `Answered(i)` asks for
strong fairness of the good answer: a client that is asked for ever is not
busy for ever.  Faults, users and API calls are never fair.  The services are
checked for safety only.

## 4. What is proved

TLAPS checks these for all values of the constants: any set of items and
workers, every client and storage mode, all budgets.  The only assumptions are
the named ones of the modules, which TLC evaluates in their runs: sets of
items and workers are not empty or finite where a count is taken of them, no
item is called `none` or `foreign`, switches are Booleans, bounds are natural
numbers, and for the services what `MCServices` says of each
(`FilesAssumption` ... `StagingAssumption`), such as a positive threshold or
that retention keeps at least the latest backup.  The pairs of movies are those
of the instance of the run; of these the proof uses only the lemma `MoviePairs`
(the names of a pair tell it apart), and everything else is about any pair.

**Seeding** (`UnpackSeedingProofs`).

* `TypeCorrect`: `Spec => []TypeOK`.
* `RpcAtMostOnce`: `Spec => []AtMostOnce`.  The property is not inductive: a
  step that sends does not show that nobody has sent before.  `HolderInv` adds
  why: a worker between intent and RPC is the only one at that operation of
  that item, its row exists, and the RPC has not been sent; and every RPC ever
  sent has a row.  It is preserved because `RecordIntent` needs the row to be
  absent and no step ever removes a row (deletion keeps the audit copy).
  `HolderSafe` is that invariant, `IntentBeforeRpc` its second half.
* `SeedingKeepsPromise`: `Spec => KeepsPromise`, a step simulation on top of
  `HolderInv`.
* `AddedByUs`: `Spec => []AddIsOurs`.  The invariant `OursInv` says in
  addition that a torrent owned by an item was created by it, and that a
  worker about to commit an ADD confirmation has seen such a torrent.
* `VerifyBeforeStart`: `Spec => []StartAfterVerify`.  `StartInv` says that a
  worker between the check of the VERIFY row and the RPC is cleared: the row was
  confirmed whole.  It stays so because a finding is never taken back
  (`FindingsStay`): a later contradiction changes the status of a row, not what
  its snapshot says, and needs `OursInv` for which operation a label belongs to.
* `RecheckRanForOne`: `OneWorker /\ Spec => []RecheckReallyRan`.  `AddedInv` says
  that a torrent of an item is made once, by its ADD, and verified only after
  that, so that what the client vouched for is not lost with a torrent that is
  made again.  `RanInv` says of each row (`RowSays`) and of what the worker
  carries from one read to the next (`SeesRun`) that a check has begun, or ended,
  since the intent.  Users, lost answers, crashes and API calls are in it
  without bound; a second worker is not, and refutes it (section 5).
* `CompletedForGood`: `Spec => CompletedStays`, from the fence: `Fenced` holds
  only for active items.
* `CompletedIsTruthful`: `Spec => []ExecutionTruthful`, by induction over the
  two refreshes that write COMPLETED and the statuses that can follow.

**Pipeline** (`UnpackPipelineProofs`).  `PipelineInv` joins three things:
`RowInv`, what the status of an item says of its candidate, its verification
and its effects; `JobInv`, that what a job carries across its await is `Held`
(the item still has that version, generation and candidate, in the status of
that step) or the item is in a status in which every fence refuses the result
(`TakenAway`); and `TickInv`, the types of the driver.  From it
`PlansStayProven`, `EffectsPin` and `DecisionsAreKept`: the last two are about
steps and use what a step may do to a row (`RowStep`) and a job to its item
(`ResultIsFenced`).  `DecisionsAreKept` is where `Held` matters: some fences of
the code do not compare the version, and it holds because whatever changes the
version also leaves the status they do compare.

**Placing** (`UnpackMaterializationProofs`).  `PlacingInv` says for each item
which rows and files go together (`ItemInv`), for each worker what it knows at
its label (`Fits`), and that two workers are never between the making and the
publishing of one temporary file (`Exclusive`).  From it `PlacedFilesAreSound`,
`PlacedRowsAreTrue`, `NothingIsReplaced`, and `PlacingKeepsPromise` as a step
simulation.  The attempt corrected `ProofStands`: a directory that somebody
removes takes the proof of its files with it (`dirRow.gone`).  `AppliedStays`
shows the comment that section 5 finds violated to hold in every mode but COPY.

**Legacy engine** (`TaskEngineProofs`).  `EngineInv` joins the types, what the
row and the call of each operation have to do with each other (`CallInv`),
whose torrent is in the client (`Own`), what a start under way was decided for
(`StartInv`), that a torrent nothing has checked is no more complete than at
the intent (`CheckInv`), and that files go after the torrent (`GoneInv`).
`ChecksReallyRun` and `NothingIsHarmed` follow.  The attempt found the one
exception: an add that is sent again after its first request was given up may
arrive after a removal (`again`, section 5).

**Services** (`ServicesProofs`, `UnpackServicesProofs`, `BackgroundProofs`,
`OutsideProofs`).  Each section proves the invariant of one subject from its own
initial states and steps; the rest is `UNCHANGED`.

* `BreakerStaysTrue`.  A half-open probe is held by exactly one call that will
  give it back; a call that sleeps has an attempt left.
* `SiteStaysSpared`.  For the breaker: one search at a time is past the lock of
  its key, and while one is, the search is not in the cache (`SiteKeyInv`).  For
  the items (`SearchInv`): a site's result is done once it was refused or has
  given the wanted answer; a pending item nobody has asked for waits at least until
  the hush of every site is over, unless the running search has counted a refusal
  that `Finalize` has yet to tell it; the one that is searched waits no more.
  That the item gets the longest of the pauses is an argument on bounded sets of
  numbers (`SearchFirst`, by well-foundedness), from `SearchAssumption`.
* `DeliveriesStayTrue`.  An account: what messages have told and what the row
  still counts is together no more than the events that came, and while a
  message is out, the row and its count have grown by the same events.
* `DataStaysFound`.  For the file: a log was written for an older file than the
  one that replaces it, and what a switch leads to, or back to, holds what was
  committed.  For the backups: whatever retention, of driver or command, plans to
  remove, a newer one stands that is whole, and no plan names what is being
  published.
* `ExecutionsStaySound`, `ExecutionsStartAlone`.  What the monitor waits with was
  read from the definition as it is, or the definition has a higher version and
  the fence will refuse it.
* `LibraryStaysComplete`, `VersionsStayFrozen`.  An open job imports into the last
  version of its template and no other job does; the newest version expects at
  least the torrents that were ever asked for, unless a missing one was made up for by
  one imported twice.  That a full count means a complete set is an argument on
  cardinalities.
* `StagingStaysOwn`, `RemovalStaysRecognised`.  Rows before requests: what was
  sent has a row, and a request is through when it was sent and no longer on
  the wire.  The torrent runs only after its start, is stopped for good after its
  stop unless a user intervenes, and is removed after a verification; what was
  given up alone contradicts a stop.
* `OneServiceStays`.  `UpgradeInv` says at each step of the helper which container
  runs, under which name, and which schema the database has; a rollback and a
  recovery after a stop start from what those steps can leave.
* `MonitorStaysComplete`, `ScanStaysKept`.  `MonitorInv` follows the keys of the
  files: what the checkpoint, or the copy a scan works with, has seen has its
  task or was there at the baseline; a wait that is over belongs to a file that
  was left alone or to a key that is no file any more; and with NEW_ONLY the old
  keys before the cursor are in the watermark, all of them once it is
  initialized.  The last needs that a page is what comes next after the cursor:
  `MonitorLast` gets the end of a page, and `MonitorListed` what it holds, from
  the count that bounds it.  `MonitorStaysComplete` is the monitor's half of
  `NothingMissed`.  It needs that the paths are numbered in the order of the listing
  (`MonitorAssumption`).
* `EffectsStayOurs`.  `FilesInv` adds to the three parts of `EffectsAreOurs` what
  makes them inductive: a row of the directory or of a link that is past its
  intent, or has its proof, is of something put there here; which row a call
  works on and what it knows at its step (at `mark` the temporary copy is still
  bare, before `swap` it is full and its owner recorded); a file is isolated
  only after it was linked.
* `CompletedStaysReplaced`.  `MovieInv` follows the original of B: it is in
  place, swapped out, beside another pair's temporary name, or gone, and what
  a pair's status and either thread's step allow for each.  Two threads
  may work on one file of B: what the other one may still be about to do there is
  part of the invariant, and holds because a pair is closed before anyone
  goes to the end while the original is in place.
* `StrangersStayPut`.  The half about movies needs in addition that one
  thread at a time works on a file of B that is not `crossed`, so that its
  temporary name holds the original when it is removed; the half about files
  that a rollback removes only what a row proves to be ours.

**Only model-checked.**  `TerminalTruthful` (it is about an execution nobody
calls into, and needs a count of the ticks that remain); of the services the
half of `NothingMissed` about discovery, `VerdictIsTrue` and `AccountsAreTrue`,
which are next (section 7);
what a sum over the bytes of files and pieces (`ContentCheck`) or a fold over pages
computes needs induction over data.  Liveness (`Settles`, `ResultAnnounced`) is
out of the prover's reach together with ENABLED.

## 5. Where the code and its word differ

| run | what is said | what happens |
|---|---|---|
| `seeding_recheck_claim` | a 100 percent read is no proof that the RECHECK ran (`unpack_seeding.py:732`) | the state from before the intent decides whether that matters; it may have changed before the RPC |
| `pipeline_auxiliary` | the item is kept claimable for the auxiliary driver (`unpack_auxiliary.py:908`) | planning another item takes the execution out of the only status in which it is claimed |
| `discovery_names` | pages come in a stable order and pass over what lies before the cursor (`source_inventory.py:89`) | the cursor is the normalised name; a name with its accent apart sorts elsewhere on disk, and the files between the two are skipped |
| `search_empty` | an empty first page is no evidence and is asked for again (`unpack_matching.py:1463`) | the adapter's cache answers the retry, and the last one too: the site is asked once |

Seen with the same models and not kept as runs:

* Seeding.  With two workers `RecheckReallyRan` fails: one reads the torrent, 100
  percent from before, the other sends the RECHECK, sees it checking and records
  that, and the first one then reads the row and takes its older 100 percent for
  the result (`unpack_seeding.py:1065`).
* Placing.  `AppliedIsKept` fails: a worker that read the row of a COPY before
  another one confirmed it reopens the row (`unpack_materialization.py:575`),
  although the comment at line 45 says a late failure cannot; seeding does the
  same with an older observation (`unpack_seeding.py:67`).
* Discovery.  The snapshot of a file holds its normalised path, by which a
  file whose name on disk is not normalised is not found later.
* Search.  The last retry records no risk event and may choose a query that
  is rightly empty.  A timeout of a later query discards what the earlier ones
  of that site found, an error does not.  A Retry-After of more than a day ends
  the retries of its item, while the other pending items wait only the cooldown.
* Pipeline.  `WaitingIsServed` also fails without auxiliary files when `Batch`
  is smaller than the number of matched items (the first plan strands the
  others), and with an API call when an approval meets the last search of the
  execution (`RefreshMatching` does not count MATCHED_MANUAL).  For the same
  reason `TerminalTruthful` is stated for executions nobody calls into.
  `ExecutionEnds`: a COMPLETED item beside a NO_MATCH item leaves the execution
  EXECUTING.  `InterruptedResumes`: a claimed item whose worker died is
  selected by nobody.  `ResultAnnounced` fails with one fault: a crash between
  the transaction that ends an execution and the projection at the end of the
  tick loses the notification.  A retry or deletion between two pages of
  discovery replaces DISCOVERING (`unpack_item_actions.py:746`), and the rest
  of the source is not read.
* Database.  `AtomicSwitch` of `DatabaseSwitch` fails: a kill between the
  rename and the removal of the old log (`upgrades.py:101`, `backups.py:424`)
  leaves a new file beside the log of the old one; `SwitchedWhole` and
  `FoundAgain` are stated for switches that were not cut there.
* Upgrade.  A status poll that began earlier writes its reading over a later
  state (`transient_updater.py:190`); two requests with different keys both
  pass the look for an active one (`:71`); a lost reply to the removal of the
  old container rolls a healthy upgrade back (`docker_updater.py:614`).
* Movies.  Two threads on one file of B may exchange it between the check of
  the temporary name and its removal, and then what a user put there is
  removed: `StrangersStay` is stated for files only one thread worked on
  (`crossed`).  In hard link mode the second pair of one file of A never passes
  `_assert_inventory_current`, since the first link changed its ctime.
* Legacy engine.  A cancellation during an add finds no row of it, rolls the
  files back, and the torrent arrives afterwards (`task_cancellation.py:229`);
  `RemovedBeforeFiles` is stated for plans that know the add.  An add may be
  sent again before the first is known to have come through, and the second
  one then brings a removed torrent back (`again`).
* Definitions.  A definition whose trigger fails keeps its due time and is
  first again: enough of them starve the others (`unpack_monitor.py:61`).  A
  retry of an item may reopen an execution beside a live one.
* Staging.  A stop whose reply is lost while the torrent runs on ends in a
  state that a retry refuses for good (`unpack_item_actions.py:620`), as does
  a process stop between the making of the directory and its commit.
* Content.  A torrent none of whose own files but all of whose siblings are
  mapped counts as verified: `"<source-not-mapped>"` is added only when
  nothing is mapped (`unpack_content_verification.py:954`).  The last branch of
  `_build_outcome` is not reachable.
* Sites.  A site whose tracker was changed keeps its name; a later import
  wants to create the old tracker under it, and fails as a whole, every time
  (`cookiecloud.py:510`; `Stops` in `SiteAccounts`).  An exception the circuit
  does not know leaves its probe taken (`site_reliability.py:372`).
* Templates.  The expected number of seeds is a number: a torrent that is
  missing is made up for by one that was imported twice
  (`unpack_templates.py:664`); `ReadyIsComplete` and `NoneSkipped` leave such
  versions out.
* Outbox.  A send error the driver does not expect ends the tick, and the same
  row is first in the next.
* Monitor.  An edit of the source while a scan runs is followed by the scan's
  old checkpoint, so that NEW_ONLY loses its baseline
  (`task_definition_executions.py:2724`); a queued scan is gone once the scan
  begins, whether or not that ends.

## 6. Not modelled

Of the modelled parts: the acceptance marker of release tests and its gates
(production executions have none); the stage TORRENT_ADDED, which no code
sets; the pause after matching; in the pipeline, what the journals of
auxiliary and file operations go through (their own modules have it); the
replay of a review by its idempotency key; the content of snapshots, hashes and
plans; error texts.  The transition tables
of `domain/unpack.py` are not enforced by any write and so are not modelled.
`UnpackDiscovery` has the file filter as a set of names.  `UnpackSearch` has
neither that filter nor templates, and no exception the search does not know
(`_finalize_unexpected_error`); all sites have an interval between their searches.
`UnpackStaging` has one item and one worker, without the site's fetch of the
torrent.  `NotificationOutbox` has one channel that is never deleted.
`SiteCircuit` has one version of the configuration and one search;
`SiteAccounts` leaves out the download cookie of Rousi Pro, stored profiles
and the end of the process.  `SystemUpgrade` leaves out the resident updater.
`TaskMonitor` has the directory source only.  The legacy engine's repairs and
analysis are left out: nothing calls them.

Whole parts: see `PROJECT.json`, "components", with the reason for each.  What
remains is parsing and scraping (the adapters of trackers and clients, the
torrent parser), scoring, paged lists, sessions, the AI agent's
conversations, release acceptance, the HTTP layer, migrations and the
frontend: much code, little of it with a protocol.

## 7. Plan

Done: the promise of the journal, seeding with its theorems, discovery, search,
placing, staging, the content check, the pipeline, definitions and monitor,
templates, sites and their accounts, notifications, movies, upgrades, the
database and its backups, the core of the legacy engine, and the theorems of
section 4.  Left, in this order:

1. Proofs of the services that are only model-checked: site accounts, the verdict
   of a search, then discovery and the content check.
2. A proof of `TerminalTruthful` for executions without calls.
3. `UnpackReview`: the idempotency key of reviews, replays, versions, and the
   item moving on between request and replay.
4. The resident updater, the scan of movie deduplication, the AI agent's
   polling of Telegram, repairs of the legacy engine.
