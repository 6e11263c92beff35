SPECIFICATION Spec
CONSTANTS
    Files = {f1, f2}
    FsCalls = 3
    FsFaults = 2
    FsMeddling = 1
    Paths = {1, 2, 3}
    Batch = 2
    MaxWrites = 1
    MaxScans = 3
    MonitorFaults = 1
    PageLimit = 2
    SourceWrites = 1
    SourceFaults = 1
    OutboxRows = {n1, n2}
    Once = {n2}
    DeliveryAttempts = 2
    MaxEvents = 2
    MaxEdits = 2
    OutboxFaults = 1
    MovieCalls = 2
    MaxStops = 1
    MovieMeddling = 1
    Calls = {c1, c2}
    Concurrency = 1
    SiteAttempts = 2
    Threshold = 2
    SiteCalls = 4
    MaxMishaps = 2
    UpgradeRequests = {"r1", "r2"}
    UpgradeFaults = 2
    Templates = {t1, t2}
    Torrents = {1, 2}
    MaxJobs = 3
    ImportFaults = 2
    Revisions = {1, 2}
    MaxCommits = 2
    MaxFiles = 3
    SwitchFaults = 2
    Definitions = {"d1"}
    Configs = {1, 2}
    DefinitionEdits = 2
    MaxExecutions = 2
    MaxReopened = 1
    MaxVersion = 4
    StagingFaults = 2
    StagingMeddling = 1
    StagingRetries = 1
    PieceLength = 2
    MaxFileWrites = 1
    SearchItems = {1, 2}
    SearchSites = {"a"}
    SearchQueries = 2
    SearchPages = 2
    RiskLimit = 2
    RiskPause = 2
    SearchRetries = 1
    SearchClock = 2
    SearchFaults = 2
    SearchEdits = 1
    Sites = {1, 2}
    AccountEdits = 1
    AccountActs = 2
    AccountRisks = 1
    KeepDays = {1}
    KeepLatest = {1}
    MaxBackups = 2
    MaxDays = 2
    MaxPolicies = 1
    BackupFaults = 1
INVARIANTS EffectsAreOurs NothingMissed DeliveriesAreTrue CompletedIsReplaced BreakerIsTrue OneServiceStands LibraryIsComplete DataIsFound ExecutionsAreSound StagingIsOwn VerdictIsTrue AccountsAreTrue
PROPERTIES StrangersStay ScanIsKept SiteIsSpared VersionIsFrozen StartsAlone RemovalRecognised
CHECK_DEADLOCK FALSE
