SPECIFICATION FairSpec
CONSTANTS
    Parts = {"firstboot", "bootstrap", "card", "image", "files", "initramfs", "install", "preflight", "network", "metadata", "web", "recovery"}
    MaxRetries = 3
    MaxReboots = 1
    MaxPowerLoss = 2
    MaxBootCount = 4
    CardSizes = {19, 20, 22, 23, 25, 30}
    RootSizes = {5, 7, 9}
    RootStart = 4
    Alignment = 4
    RootTarget = 7
    MinimumCard = 20
    MinimumData = 4
    TrailingReserve = 2
    MaxStops = 2
    Executors = {e1, e2}
    MaxContents = 8
    Names <- MemberNames
    Stocks <- StockArchives
    MaxMembers = 7
    Bundles = {"a", "b"}
    NFiles = 3
    Unchanged = {2}
    MaxRefresh = 1
    MaxEdits = 1
    MaxRuns = 2
    MaxMounts = 2
    MaxCuts = 1
    ClientWindow = 2
    MaxCredentials = 4
    MaxRetriesOfClient = 1
    MaxOutages = 1
    Micro = 2
    Milli = 4
    Rounding = 4
    Page = 2
    PerPass = 1
    MaxRetryAttempts = 2
    MaxTracked = 1
    MaxDisagreement = 2
    NClips = 2
    Durations = {5, 7}
    Utcs = {100, 102}
    MaxLeases = 1
    MaxSessions = 1
    IdleTimeout = 2
    AbsoluteTimeout = 3
    ReauthWindow = 1
    MaxSeconds = 3
    MaxTokens = 2
    MaxMinted = 2
    Wishes = {1}
    MaxKills = 1
    MaxLineEdits = 1
CHECK_DEADLOCK FALSE
INVARIANTS
    FirstBootInv
    CardPlanInv
    BuildInv
    AddedMembersAreNewFiles
    WebInv
    RecoveryInv
PROPERTIES
    BootstrapSound
    InstallSound
    ProbeSound
    NetworkServes
    MetadataServes
