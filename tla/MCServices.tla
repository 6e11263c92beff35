----------------------------- MODULE MCServices -----------------------------
(***************************************************************************)
(* The services that live beside the unpacking of a torrent, each from its *)
(* own module.  They share no state with one another, so that a run        *)
(* follows one of them at a time, its subject; the others keep the first   *)
(* of their initial states.                                                *)
(***************************************************************************)
EXTENDS Naturals, FiniteSets, Sequences

VARIABLE subject    \* the service that is followed

VARIABLES filesDir, filesAt, filesTemp, filesSpare, filesSource, filesJournal,
          filesGone, filesCall, filesEffects, filesBudget
files == <<filesDir, filesAt, filesTemp, filesSpare, filesSource, filesJournal,
    filesGone, filesCall, filesEffects, filesBudget>>

VARIABLES monitorPolicy, monitorOrigin, monitorListing, monitorQuiet,
          monitorCheckpoint, monitorScan, monitorTasks, monitorPast, monitorBudget
monitor == <<monitorPolicy, monitorOrigin, monitorListing, monitorQuiet,
    monitorCheckpoint, monitorScan, monitorTasks, monitorPast, monitorBudget>>

VARIABLES discoveryKind, discoveryAt, discoveryMounted, discoveryStatus,
          discoveryCursor, discoveryComplete, discoveryItems, discoveryWalk,
          discoveryTouched, discoveryFaults
discovery == <<discoveryKind, discoveryAt, discoveryMounted, discoveryStatus,
    discoveryCursor, discoveryComplete, discoveryItems, discoveryWalk,
    discoveryTouched, discoveryFaults>>

VARIABLES outboxChannel, outboxProbe, outboxOutbox, outboxTick, outboxSeen,
          outboxBudget
outbox == <<outboxChannel, outboxProbe, outboxOutbox, outboxTick, outboxSeen,
    outboxBudget>>

VARIABLES movieMode, movieSource, movieAt, movieTemp, movieStale, moviePair,
          movieJournal, movieJob, movieWorker, movieCrossed, movieBudget
movie == <<movieMode, movieSource, movieAt, movieTemp, movieStale, moviePair,
    movieJournal, movieJob, movieWorker, movieCrossed, movieBudget>>

VARIABLES siteUntil, siteFailures, siteProbing, siteCached, siteCall, siteAnnounced,
          siteMishap, siteBudget
site == <<siteUntil, siteFailures, siteProbing, siteCached, siteCall, siteAnnounced,
    siteMishap, siteBudget>>

VARIABLES upgradeStatus, upgradeFresh, upgradeApi, upgradePoll, upgradeHelper,
          upgradeBox, upgradeName, upgradeVersion, upgradeDb, upgradePast,
          upgradeFaults
upgrade == <<upgradeStatus, upgradeFresh, upgradeApi, upgradePoll, upgradeHelper,
    upgradeBox, upgradeName, upgradeVersion, upgradeDb, upgradePast, upgradeFaults>>

VARIABLES libraryVersions, libraryJobs, libraryTick, libraryPast, libraryFaults
library == <<libraryVersions, libraryJobs, libraryTick, libraryPast, libraryFaults>>

VARIABLES databaseFile, databaseLog, databaseApp, databaseCode, databaseSaved,
          databaseSwitch, databaseHeld, databaseCut, databaseFaults
database == <<databaseFile, databaseLog, databaseApp, databaseCode, databaseSaved,
    databaseSwitch, databaseHeld, databaseCut, databaseFaults>>

VARIABLES unpackDefinitions, unpackExecutions, unpackTick, unpackEdits, unpackReopened
unpack == <<unpackDefinitions, unpackExecutions, unpackTick, unpackEdits,
    unpackReopened>>

VARIABLES stagingItem, stagingJournal, stagingDisk, stagingClient, stagingWorker,
          stagingWire, stagingPast, stagingSound, stagingFaults, stagingMeddled,
          stagingRetries
staging == <<stagingItem, stagingJournal, stagingDisk, stagingClient, stagingWorker,
    stagingWire, stagingPast, stagingSound, stagingFaults, stagingMeddled,
    stagingRetries>>

VARIABLES contentFiles, contentKind, contentDisk, contentPc, contentMapping,
          contentPhase, contentSnaps, contentEarlier, contentAt, contentPieces,
          contentTrees, contentOutcome, contentWrites
content == <<contentFiles, contentKind, contentDisk, contentPc, contentMapping,
    contentPhase, contentSnaps, contentEarlier, contentAt, contentPieces,
    contentTrees, contentOutcome, contentWrites>>

VARIABLES searchTruth, searchItem, searchRow, searchRefusals, searchMemory,
          searchActive, searchSearch, searchClock, searchAsked, searchVoid,
          searchSeen, searchHush, searchWanted, searchSearched, searchFaults,
          searchEdits
search == <<searchTruth, searchItem, searchRow, searchRefusals, searchMemory,
    searchActive, searchSearch, searchClock, searchAsked, searchVoid, searchSeen,
    searchHush, searchWanted, searchSearched, searchFaults, searchEdits>>

VARIABLES accountsRow, accountsSecrets, accountsSetting, accountsRound,
          accountsProbe, accountsQueue, accountsEnqueued, accountsRunning,
          accountsRerun, accountsJob, accountsWanted, accountsEdits, accountsRounds,
          accountsRisks
accounts == <<accountsRow, accountsSecrets, accountsSetting, accountsRound,
    accountsProbe, accountsQueue, accountsEnqueued, accountsRunning, accountsRerun,
    accountsJob, accountsWanted, accountsEdits, accountsRounds, accountsRisks>>

VARIABLES backupDay, backupPolicy, backupArchive, backupRuns, backupPast, backupFaults
backup == <<backupDay, backupPolicy, backupArchive, backupRuns, backupPast,
    backupFaults>>

vars == <<subject, files, monitor, discovery, outbox, movie, site, upgrade, library, database, unpack, staging, content, search, accounts, backup>>

CONSTANTS
    Files, FsCalls, FsFaults, FsMeddling,
    Paths, Batch, MaxWrites, MaxScans, MonitorFaults,
    PageLimit, SourceWrites, SourceFaults,
    OutboxRows, Once, DeliveryAttempts, MaxEvents, MaxEdits, OutboxFaults,
    MovieCalls, MaxStops, MovieMeddling,
    Calls, Concurrency, SiteAttempts, Threshold, SiteCalls, MaxMishaps,
    UpgradeRequests, UpgradeFaults, Templates, Torrents, MaxJobs, ImportFaults,
    Revisions, MaxCommits, MaxFiles, SwitchFaults,
    Definitions, Configs, DefinitionEdits, MaxExecutions, MaxReopened, MaxVersion,
    SearchItems, SearchSites, SearchQueries, SearchPages, RiskLimit, RiskPause, SearchRetries, SearchClock, SearchFaults, SearchEdits,
    StagingFaults, StagingMeddling, StagingRetries, PieceLength, MaxFileWrites, Sites, AccountEdits, AccountActs, AccountRisks,
    KeepDays, KeepLatest, MaxBackups, MaxDays, MaxPolicies, BackupFaults

\* What the policies and the bounds of the proved services are.
ASSUME FilesAssumption == FsCalls \in Nat /\ FsFaults \in Nat /\ FsMeddling \in Nat
ASSUME MovieAssumption == MovieCalls \in Nat /\ MaxStops \in Nat /\ MovieMeddling \in Nat
ASSUME MonitorAssumption ==
    /\ IsFiniteSet(Paths) /\ Paths = 1..Cardinality(Paths)
    /\ Batch \in Nat /\ MaxWrites \in Nat /\ MaxScans \in Nat /\ MonitorFaults \in Nat
ASSUME SearchAssumption ==
    /\ SearchItems \subseteq Nat \ {0}
    /\ RiskPause \in Nat /\ SearchClock \in Nat /\ SearchRetries \in Nat
ASSUME SiteAssumption ==
    Threshold \in Nat \ {0} /\ SiteAttempts \in Nat \ {0} /\ SiteCalls \in Nat /\ MaxMishaps \in Nat
ASSUME OutboxAssumption ==
    /\ "none" \notin OutboxRows /\ DeliveryAttempts \in Nat
    /\ MaxEvents \in Nat /\ MaxEdits \in Nat /\ OutboxFaults \in Nat
ASSUME DatabaseAssumption ==
    Revisions \subseteq Nat \ {0} /\ MaxCommits \in Nat /\ MaxFiles \in Nat /\ SwitchFaults \in Nat
ASSUME BackupAssumption ==
    /\ KeepDays \subseteq Nat /\ KeepLatest \subseteq Nat \ {0} /\ KeepDays # {} /\ KeepLatest # {}
    /\ MaxBackups \in Nat /\ MaxDays \in Nat /\ MaxPolicies \in Nat /\ BackupFaults \in Nat
ASSUME UnpackAssumption ==
    /\ DefinitionEdits \in Nat /\ MaxExecutions \in Nat /\ MaxReopened \in Nat
    /\ MaxVersion \in Nat
ASSUME LibraryAssumption ==
    /\ IsFiniteSet(Torrents) /\ Torrents \subseteq Nat \ {0}
    /\ MaxJobs \in Nat /\ ImportFaults \in Nat
ASSUME UpgradeAssumption ==
    {"first", "none"} \cap UpgradeRequests = {} /\ UpgradeFaults \in Nat
ASSUME StagingAssumption ==
    StagingFaults \in Nat /\ StagingMeddling \in Nat /\ StagingRetries \in Nat

\* Two files of A that are the same as one file of B.
Pairs == {[a |-> "a1", b |-> "b1"], [a |-> "a2", b |-> "b1"]}

\* Torrents of a movie, of something between, and of an extra file, each with
\* the number of files on disk that carry its name.
File(len, padding, auxiliary, copies) ==
    [len |-> len, padding |-> padding, auxiliary |-> auxiliary, copies |-> copies]
Films == {File(len, FALSE, FALSE, c) : len \in {1, 3}, c \in 0..2}
Between == {File(1, TRUE, FALSE, 0), File(0, FALSE, FALSE, 0)}
Extras == {File(1, FALSE, TRUE, c) : c \in {0, 1}}
Layouts == Films \X Between \X Extras

\* A source to discover, its characters as UnpackDiscovery numbers them: the
\* directory a with a/a, a/z and the file a.a, which is no media; z; an accented
\* name.  Its torrents; the files chosen from it.
Leftover == <<3, 1, 3>>
SourceFiles == {<<3, 2, 3>>, <<3, 2, 5>>, Leftover, <<5>>, <<6>>}
Torrent(path, mapped) == [path |-> path, mapped |-> mapped]
Listed == <<Torrent(<<3>>, TRUE), Torrent(<<6>>, FALSE), Torrent(<<5>>, TRUE)>>
Picked == <<<<3, 2, 3>>, <<5>>, <<6>>>>

\* What a site may have for the two queries of an item.
Holdings == {<<"usable", "usable">>, <<"exact", "later">>}

\* How long backups are kept, and how many for good.
Retentions == [days : KeepDays, keep : KeepLatest]

Filesystem == INSTANCE FilesystemOperations WITH dir <- filesDir, at <- filesAt,
    temp <- filesTemp, spare <- filesSpare, source <- filesSource,
    journal <- filesJournal, gone <- filesGone, call <- filesCall,
    effects <- filesEffects, budget <- filesBudget, MaxCalls <- FsCalls,
    MaxFaults <- FsFaults, MaxMeddling <- FsMeddling

Monitor == INSTANCE TaskMonitor WITH policy <- monitorPolicy, origin <- monitorOrigin,
    listing <- monitorListing, quiet <- monitorQuiet, checkpoint <- monitorCheckpoint,
    scan <- monitorScan, tasks <- monitorTasks, past <- monitorPast,
    budget <- monitorBudget, MaxFaults <- MonitorFaults

Discovery == INSTANCE UnpackDiscovery WITH kind <- discoveryKind, at <- discoveryAt,
    mounted <- discoveryMounted, status <- discoveryStatus, cursor <- discoveryCursor,
    complete <- discoveryComplete, items <- discoveryItems, walk <- discoveryWalk,
    touched <- discoveryTouched, faults <- discoveryFaults, Places <- SourceFiles,
    Media <- SourceFiles \ {Leftover}, Torrents <- Listed, Chosen <- Picked,
    Limit <- PageLimit, MaxWrites <- SourceWrites, MaxFaults <- SourceFaults

Outbox == INSTANCE NotificationOutbox WITH channel <- outboxChannel,
    probe <- outboxProbe, outbox <- outboxOutbox, tick <- outboxTick,
    seen <- outboxSeen, budget <- outboxBudget, Rows <- OutboxRows,
    MaxAttempts <- DeliveryAttempts, MaxFaults <- OutboxFaults

Movies == INSTANCE MovieExchange WITH mode <- movieMode, source <- movieSource,
    at <- movieAt, temp <- movieTemp, stale <- movieStale, pair <- moviePair,
    journal <- movieJournal, job <- movieJob, worker <- movieWorker,
    crossed <- movieCrossed, budget <- movieBudget, MaxCalls <- MovieCalls,
    MaxMeddling <- MovieMeddling

Site == INSTANCE SiteCircuit WITH until <- siteUntil, failures <- siteFailures,
    probing <- siteProbing, cached <- siteCached, call <- siteCall,
    announced <- siteAnnounced, mishap <- siteMishap, budget <- siteBudget,
    MaxAttempts <- SiteAttempts, MaxCalls <- SiteCalls

Upgrade == INSTANCE SystemUpgrade WITH status <- upgradeStatus, fresh <- upgradeFresh,
    api <- upgradeApi, poll <- upgradePoll, helper <- upgradeHelper, box <- upgradeBox,
    name <- upgradeName, version <- upgradeVersion, db <- upgradeDb,
    past <- upgradePast, faults <- upgradeFaults, Requests <- UpgradeRequests,
    MaxFaults <- UpgradeFaults

Library == INSTANCE UnpackTemplates WITH versions <- libraryVersions,
    jobs <- libraryJobs, tick <- libraryTick, past <- libraryPast,
    faults <- libraryFaults, MaxFaults <- ImportFaults

Database == INSTANCE DatabaseSwitch WITH file <- databaseFile, log <- databaseLog,
    app <- databaseApp, code <- databaseCode, saved <- databaseSaved,
    switch <- databaseSwitch, held <- databaseHeld, cut <- databaseCut,
    faults <- databaseFaults, MaxFaults <- SwitchFaults

Unpack == INSTANCE UnpackDefinitions WITH definitions <- unpackDefinitions,
    executions <- unpackExecutions, tick <- unpackTick, edits <- unpackEdits,
    reopened <- unpackReopened, MaxEdits <- DefinitionEdits

Staging == INSTANCE UnpackStaging WITH item <- stagingItem, journal <- stagingJournal,
    disk <- stagingDisk, client <- stagingClient, worker <- stagingWorker,
    wire <- stagingWire, past <- stagingPast, sound <- stagingSound,
    faults <- stagingFaults, meddled <- stagingMeddled, retries <- stagingRetries,
    MaxFaults <- StagingFaults, MaxMeddling <- StagingMeddling,
    MaxRetries <- StagingRetries

Content == INSTANCE ContentCheck WITH files <- contentFiles, kind <- contentKind,
    disk <- contentDisk, pc <- contentPc, mapping <- contentMapping,
    phase <- contentPhase, snaps <- contentSnaps, earlier <- contentEarlier,
    at <- contentAt, pieces <- contentPieces, trees <- contentTrees,
    outcome <- contentOutcome, writes <- contentWrites,
    Kinds <- {"V1", "V2", "HYBRID"}, MaxWrites <- MaxFileWrites

Search == INSTANCE UnpackSearch WITH truth <- searchTruth, item <- searchItem,
    row <- searchRow, refusals <- searchRefusals, memory <- searchMemory,
    active <- searchActive, search <- searchSearch, clock <- searchClock,
    asked <- searchAsked, void <- searchVoid, seen <- searchSeen, hush <- searchHush,
    wanted <- searchWanted, searched <- searchSearched, faults <- searchFaults,
    edits <- searchEdits, Items <- SearchItems, Sites <- SearchSites,
    Truths <- Holdings, Queries <- SearchQueries, MaxPages <- SearchPages,
    SiteConcurrency <- Concurrency, MaxRetries <- SearchRetries, Cooldown <- RiskPause,
    MaxClock <- SearchClock, MaxFaults <- SearchFaults, MaxEdits <- SearchEdits

Accounts == INSTANCE SiteAccounts WITH row <- accountsRow, secrets <- accountsSecrets,
    setting <- accountsSetting, round <- accountsRound, probe <- accountsProbe,
    queue <- accountsQueue, enqueued <- accountsEnqueued, running <- accountsRunning,
    rerun <- accountsRerun, job <- accountsJob, wanted <- accountsWanted,
    edits <- accountsEdits, rounds <- accountsRounds, risks <- accountsRisks,
    Trackers <- <<"a", "k">>, ApiTrackers <- {"k"}, MaxEdits <- AccountEdits,
    MaxActs <- AccountActs, MaxRisks <- AccountRisks

Backups == INSTANCE BackupSchedule WITH day <- backupDay, policy <- backupPolicy,
    archive <- backupArchive, runs <- backupRuns, past <- backupPast,
    faults <- backupFaults, MaxFaults <- BackupFaults

-----------------------------------------------------------------------------
Init ==
    /\ subject \in {"files", "monitor", "discovery", "outbox", "movie", "site", "upgrade", "library", "database", "unpack", "staging", "content", "search", "accounts", "backup"}
    /\ Filesystem!Init /\ (subject # "files" => filesDir = "absent")
    /\ Monitor!Init /\ (subject # "monitor" => monitorPolicy = [newOnly |-> TRUE, debounce |-> TRUE, stability |-> TRUE])
    /\ Discovery!Init /\ (subject # "discovery" => discoveryKind = "all")
    /\ Outbox!Init
    /\ Movies!Init /\ (subject # "movie" => movieMode = "hardlink")
    /\ Site!Init
    /\ Upgrade!Init
    /\ Library!Init
    /\ Database!Init /\ (subject # "database" => databaseCode = 1)
    /\ Unpack!Init
    /\ Staging!Init /\ (subject # "staging" => stagingSound /\ stagingDisk = "absent" /\ stagingClient.torrent = "absent")
    /\ Content!Init /\ (subject # "content" => contentFiles = <<File(1, FALSE, FALSE, 0), File(0, FALSE, FALSE, 0), File(1, FALSE, TRUE, 0)>> /\ contentKind = "V1")
    /\ Search!Init /\ (subject # "search" => searchTruth = [s \in SearchSites |-> <<"usable", "usable">>])
    /\ Accounts!Init
    /\ Backups!Init

Others(of) ==
    /\ UNCHANGED subject
    /\ of # "files" => UNCHANGED files
    /\ of # "monitor" => UNCHANGED monitor
    /\ of # "discovery" => UNCHANGED discovery
    /\ of # "outbox" => UNCHANGED outbox
    /\ of # "movie" => UNCHANGED movie
    /\ of # "site" => UNCHANGED site
    /\ of # "upgrade" => UNCHANGED upgrade
    /\ of # "library" => UNCHANGED library
    /\ of # "database" => UNCHANGED database
    /\ of # "unpack" => UNCHANGED unpack
    /\ of # "staging" => UNCHANGED staging
    /\ of # "content" => UNCHANGED content
    /\ of # "search" => UNCHANGED search
    /\ of # "accounts" => UNCHANGED accounts
    /\ of # "backup" => UNCHANGED backup

Next ==
    \/ subject = "files" /\ Filesystem!Next /\ Others("files")
    \/ subject = "monitor" /\ Monitor!Next /\ Others("monitor")
    \/ subject = "discovery" /\ Discovery!Next /\ Others("discovery")
    \/ subject = "outbox" /\ Outbox!Next /\ Others("outbox")
    \/ subject = "movie" /\ Movies!Next /\ Others("movie")
    \/ subject = "site" /\ Site!Next /\ Others("site")
    \/ subject = "upgrade" /\ Upgrade!Next /\ Others("upgrade")
    \/ subject = "library" /\ Library!Next /\ Others("library")
    \/ subject = "database" /\ Database!Next /\ Others("database")
    \/ subject = "unpack" /\ Unpack!Next /\ Others("unpack")
    \/ subject = "staging" /\ Staging!Next /\ Others("staging")
    \/ subject = "content" /\ Content!Next /\ Others("content")
    \/ subject = "search" /\ Search!Next /\ Others("search")
    \/ subject = "accounts" /\ Accounts!Next /\ Others("accounts")
    \/ subject = "backup" /\ Backups!Next /\ Others("backup")

Spec == Init /\ [][Next]_vars

-----------------------------------------------------------------------------
\* What a task does on disk is its own (filesystem_operations.py): an isolated
\* file never again shares the inode of its source; no byte of a copy is
\* written before its row can prove whose it is; what a rollback reports as
\* undone is gone and stays gone; no stop or repeated call makes someone else's
\* file ours to remove.
EffectsAreOurs ==
    subject = "files" =>
        /\ Filesystem!TypeOK
        /\ Filesystem!IsolatedStaysApart
        /\ Filesystem!CopyHasOwner
        /\ Filesystem!RolledBackIsGone
        /\ Filesystem!AppliedIsOurs

\* What a source holds is taken, once and whole (task_definition_executions.py,
\* unpack_discovery.py): the watermark forgets no object that has no task; a
\* file gets a task as the version that was left alone for the waiting time;
\* with NEW_ONLY, what was there before never gets a task; no file of a source
\* is skipped by its pages; a page holds the files that come next.
NothingMissed ==
    /\ subject = "monitor" =>
           /\ Monitor!TypeOK
           /\ Monitor!SeenHasTask
           /\ Monitor!TakenWhenSettled
           /\ Monitor!OldStaysOut
    /\ subject = "discovery" =>
           /\ Discovery!TypeOK
           /\ Discovery!NothingSkipped
           /\ Discovery!PageIsNext

\* The outbox tells the truth (notification_repositories.py): an event that
\* arrives while a message is sent is not lost with it; a message announces no
\* event that one has announced before; a channel is enabled only with a
\* configuration that passed its test.
DeliveriesAreTrue ==
    subject = "outbox" =>
        /\ Outbox!TypeOK
        /\ Outbox!NothingForgotten
        /\ Outbox!CountIsTrue
        /\ Outbox!EnabledIsTested

\* A replaced movie is replaced (movie_dedup.py): what is reported as replaced
\* is a link, and its original is gone.
CompletedIsReplaced ==
    subject = "movie" =>
        /\ Movies!TypeOK
        /\ Movies!CompletedIsReplaced

\* The breaker of a site is what its callers made of it (site_reliability.py):
\* the breaker never waits for a probe that is gone; what was last announced is
\* the state of the breaker.
BreakerIsTrue ==
    subject = "site" =>
        /\ Site!TypeOK
        /\ Site!ProbeIsHeld
        /\ Site!AnnouncedIsTrue

\* An upgrade leaves one application that runs (docker_updater.py): two
\* containers never run on the one database; no container runs on a database
\* that a newer one has migrated; after an upgrade the application runs under
\* its name, or help is called for.
OneServiceStands ==
    subject = "upgrade" =>
        /\ Upgrade!TypeOK
        /\ Upgrade!NeverBoth
        /\ Upgrade!NoneRunsBehind
        /\ Upgrade!ServiceStands

\* A template has what was asked for (unpack_templates.py): a version counts
\* the seeds it has; no torrent that was asked for is passed over in silence; a
\* version is ready only with every torrent that was asked for.
LibraryIsComplete ==
    subject = "library" =>
        /\ Library!TypeOK
        /\ Library!CountIsSeeds
        /\ Library!NoneSkipped
        /\ Library!ReadyIsComplete

\* What was committed, restored or backed up is found (upgrades.py, backups.py,
\* backup_schedule.py): a switch that was not killed half-way leaves file and
\* log together; what was committed, or restored, is found again; the
\* application runs on the schema it expects; once there was a complete backup
\* there always is one; the last success the policy tells of is there, or a
\* newer one is; an error leaves no half of a backup behind.
DataIsFound ==
    /\ subject = "database" =>
           /\ Database!TypeOK
           /\ Database!SwitchedWhole
           /\ Database!FoundAgain
           /\ Database!RunsItsSchema
    /\ subject = "backup" =>
           /\ Backups!TypeOK
           /\ Backups!LastStands
           /\ Backups!SuccessIsBacked
           /\ Backups!HalfOnlyByStop

\* Executions and definitions fit (unpack_definitions.py, unpack_monitor.py):
\* the torrents were listed for the source that is frozen with them; what is
\* enabled is a monitor with a next time; an execution has its definition.
ExecutionsAreSound ==
    subject = "unpack" =>
        /\ Unpack!TypeOK
        /\ Unpack!SnapshotIsWhole
        /\ Unpack!EnabledIsScheduled
        /\ Unpack!NoOrphans

\* The staging torrent is under control (unpack_auxiliary.py): no request to
\* the client goes out twice; nothing but the missing files is selected when a
\* download starts; downloads go only into a directory that was made for the
\* item; what is verified stood still, and nothing writes to it any more.
StagingIsOwn ==
    subject = "staging" =>
        /\ Staging!TypeOK
        /\ Staging!SentOnce
        /\ Staging!StartsSelected
        /\ Staging!InOwnDirectory
        /\ Staging!VerifiedAtRest

\* The verdicts on files and on searches are true (piece_verifier.py,
\* unpack_content_verification.py, unpack_matching.py): what is verified is
\* there in full, as the snapshots in the evidence show it; no file is found to
\* differ that never did; a file that differs is found where it can be read,
\* whatever else is missing; a piece covers the files it shares a byte with;
\* the phase committed before the hashing and its outcome agree; a candidate is
\* given up only after its site was believed often enough; a candidate that was
\* found is kept.
VerdictIsTrue ==
    /\ subject = "content" =>
           /\ Content!TypeOK
           /\ Content!VerifiedIsSame
           /\ Content!MismatchIsReal
           /\ Content!MismatchIsFound
           /\ Content!CoversExactly
           /\ Content!PhaseAgrees
    /\ subject = "search" =>
           /\ Search!TypeOK
           /\ Search!NoMatchIsEarned
           /\ Search!FoundIsKept

\* Sites and their credentials fit (sites.py, cookiecloud.py): what is shown as
\* tested works as it is now; every credential in the store belongs to a site,
\* and none is missing; what the matching may use has a credential and is not
\* shut for risk; a site has no credential of another tracker; no test that was
\* asked for is lost to a later refresh.
AccountsAreTrue ==
    subject = "accounts" =>
        /\ Accounts!TypeOK
        /\ Accounts!OkWasTested
        /\ Accounts!SecretsAreHeld
        /\ Accounts!EnabledIsUsable
        /\ Accounts!CredentialIsForSite
        /\ Accounts!NothingDropped

\* Files that others put, or are repairing, are left to their owners: by the tasks
\* on disk, and by the replacement of a movie.
StrangersStay == Filesystem!OthersAreLeftAlone /\ Movies!StrangersStay

\* The listing never goes on past an object that has still to be taken, and a
\* queued scan is forgotten only by a scan that begins.
ScanIsKept == Monitor!PageIsTaken /\ Monitor!QueuedScanKept

\* No request leaves for a site that is shut, and a search that is in the cache
\* is not sent again; the search of an item asks no site that has failed or given
\* enough, and no item a site that wants to be left alone.
SiteIsSpared == Site!ShutIsQuiet /\ Site!SearchIsSentOnce /\ Search!EnoughIsEnough /\ Search!CooldownIsKept

\* A version of a template that was imported does not change any more.
VersionIsFrozen == Library!VersionIsFrozen

\* No execution starts beside another one of its definition.
StartsAlone == Unpack!StartsAlone

\* A removal of the staging torrent is recognised although its reply, or the
\* process, was lost.
RemovalRecognised == Staging!RemovalRecognised

=============================================================================
