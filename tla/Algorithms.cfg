SPECIFICATION Spec
CONSTANTS
    JoinTasks <- MCJoinTasks
    CaseOrder <- MCCaseOrder
    InvalidLimits <- MCInvalidLimits
    PriorArchives <- MCPriorArchives
    DocumentTasks <- MCDocumentTasks
    ContextTasks <- MCContextTasks
    PipelineTasks <- MCPipelineTasks
    ClusterTasks <- MCClusterTasks
    DatasetTasks <- MCDatasetTasks
    CoverageTasks <- MCCoverageTasks
    CitySegments = {"s1", "s2"}
    ExposureFloor = 1
    States <- MCStates
    ModeSet = {"walk", "ride"}
    Reported = {"1", "2", "3"}
    Sentinels = {"997"}
    Counties <- MCCounties
    MinimumK = 2
    PublicK = 3
    MaxDistance = 2
    AmbiguityMargin = 1
    ContextMinimumK = 2
    DedupeDistance = 1
    DedupeWindow = 2
    SnapMax = 2
    FarSnap = 1
    StreetAt <- MCStreetAt
    Gazetteer <- MCGazetteer
    Revisions = {1, 2}
    Boundaries = {"b1", "b2"}
    Data = {"d1", "d2"}
    MaxCorrections = 1
    MaxEdits = 6
    Files <- MCFiles
    HostControl = {"headers"}
    Probes <- MCProbes
    Versions <- MCVersions
    Reviewed = "reviewed"
    MaxDeploys = 3
    PageYears = {"y1", "y2"}
    DefaultYear = "y2"
    Jurisdictions = {"A", "B"}
    MaxPageEvents = 3
    MaxPageFailures = 1
    AtlasCells <- MCAtlasCells
    AtlasNames <- MCAtlasNames
    AtlasModes = {"pedalcyclist", "pedestrian", "motorist"}
    AtlasLinks <- MCAtlasLinks
    AtlasDefaultYear = "2024"
    MaxSaved = 2
    MaxAtlasEvents = 3
    CityLinks <- MCCityLinks
    CityReplies <- MCCityReplies
    CityMessage <- MCCityMessage
    SafeLinks = {"#data-table"}
    MaxCityEvents = 3
    EvidenceFiles <- MCEvidenceFiles
    SampleRows <- MCSampleRows
    Places = {"", "p"}
    MaxStudioEvents = 7
    MaxFormEvents = 5
    ReleaseYears = {"2023", "2024", "2025"}
    PublishedYears = {"2023", "2024"}
    CorrectedYear = "2024"
    AnnualCounts = {"c1", "c2"}
    PublishedCounts = "c1"
    NoFile = NoFile
    MaxReleaseEdits = 5
    ContractYears = {"2023", "2024"}
    ArfYear = "2024"
    Archives <- MCArchives
    PinnedArchive <- MCPinnedArchive
    MappingVersions = {1, 2}
    MaxRevisions = 3
    MaxRegistryEdits = 2
    Bundles <- MCBundles
    Signoffs = {"pending"}
    RegistrationDays = {1, 2}
    MaxCommands = 4
CHECK_DEADLOCK FALSE
INVARIANTS
    JoinedFilesAgree
    DocumentsTellOneStory
    WithheldStaysWithheld
    ContextIsAccounted
    EventsCountedOnce
    ClustersAreReal
    AuditsAreTruthful
    LiveSiteMatched
    PageShowsSelection
    LinksRestoreViews
    ClaimsAreGrounded
PROPERTIES
    PublicReleasesHold
