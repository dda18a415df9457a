CONSTANTS
    AtRest = AtRest
    Setups <- MCSetups
    Https = {"h1"}
    Scope = {"solve"}
    Climates <- MCClimates
    MaxInvites = 1
    MaxCodes = 1
    MaxTokens = 6
    MaxGuesses = 6
    MaxClock = 4
    MaxFailures = 3
    Window = 2
    LockTime = 2
    VoiceUser = {"u1"}
    VoiceJob = {"j1", "j2"}
    NoJob = NoJob
    Length <- MCLength
    PerMinute = 1
    PerDay = 2
    CharactersPerDay = 2
    Concurrency = 1
    DayLength = 2
    MaxMinute = 1
    VoiceEnv = {"crash", "error", "lapse"}
    Saver = {"s1", "s2"}
    Controllers <- MCControllers
    MaxSnapshots = 2
    MaxNamed = 4
    Presented <- MCPresented
    FailSafeEnv = {"crash", "error", "damage"}
    Caller = {"a", "b"}
    Asked <- MCAsked
    EnforcementEnv = {"crash", "error"}
    Visitor = {"v1", "v2", "v3"}
    Mixes <- MCMixes
    Account = {"a1"}
    Workflow = {"w1"}
    Saved = {"x", "y", "z"}
    TooLarge = {"z"}
    Text = {"p", "q"}
    Limits <- MCLimits
    TTL = 1
    LastMinute = 1
    MaxSequence = 2
    CommercialEnv = {"crash", "redeploy", "products"}
    Node = {"n1", "n2"}
    Vote <- MCVote
    Quorum = 2
    Ballot = {"b1", "b2", "b3"}
    VotesEnv = {"restart", "lost"}
    Operation = {"o1", "o2"}
    State = {"s1", "s2"}
    Signing = {"r1", "r2"}
    Sealing = {"k1", "k2"}
    Rotations = 1
    ChainEnv = {"lost", "error"}
    Device = {"d1"}
    Records <- MCRecords
    Message = {"m1", "m2"}
    Command = {"c1"}
    Action = {"on"}
    Supported = {"on"}
    Freshness = 1
    Skew = 1
    PerMinuteEvents = 1
    FailureThreshold = 2
    FailureWindow = 1
    QuarantineTime = 2
    LastTime = 3
    MaxFailureRows = 2
    Learner = {"l1"}
    Position = {1, 2}
    Item <- MCItem
    Resembling <- MCResembling
    Lesson = {"n1", "n2"}
    Reply = {"y1", "y2"}
    MaxAttempts = 2
    StreakLength = 1
    Solid = 35
    TutorEnv = {"crash", "error"}
    Solve = {"s1"}
    Problems <- MCProblems
    Rules <- MCRules
    Configured = {"web", "maglev"}
    Reports <- MCReports
    Candidates <- MCCandidates
    CouncilEnv = {"judge", "error", "crash"}
    Deployments <- MCDeployments
    Thread = {"h1", "h2"}
    Limit = 1
    ArtifactTTL = 1
    MaxBoots = 2
    LastSecond = 2
    GatewayEnv = {"crash", "error", "solve", "restore"}
    Check = {"k1"}
    Outputs <- MCOutputs
    Adapters <- MCAdapters
    Secrets = {"s1", "s2", ""}
    ReceiptTTL = 1
    LastElapsed = 2
    MaxRedeploys = 1
    FusionRequests <- MCFusionRequests
    CausalNodes <- MCCausalNodes
    Alarms <- MCAlarms
    AuthorizationRecords <- MCAuthorizationRecords
    ContextRequests <- MCContextRequests
    CommercialScopes <- MCCommercialScopes
    MadhouseFindings <- MCMadhouseFindings
    Threshold = 2
    MaxCandidates = 3
    CandidateFindings <- MCCandidateFindings
    ClaimSets <- MCClaimSets
    AgentEvidence <- MCAgentEvidence
    CausalEffects = {"x", "y"}
    Service = {"m1"}
    Version = {"v1"}
    Infrastructure = {"gw"}
    BuiltIn = {"titan", "gw"}
    Integrated = {"ats"}
    Snapshots <- MCSnapshots
    Route = {"r1"}
    Session = {"s1"}
    Fact = {"f1", "f2"}
    Keyed = {TRUE, FALSE}
    MaxRequests = 4
    MaxStarts = 2
    AwarenessEnv = {"error", "crash"}
    Chain = {"c1"}
    VoiceEvents = {"CERTIFY", "EXECUTE"}
    MaxEvents = 3
    MaxGates = 2
    MaxSequenceNumber = 2
    MaxTitanStarts = 1
    Inquiry = {"q1"}
    Commit = {"c1", "c2"}
    Production <- MCProduction
    CiRuns <- MCCiRuns
    MaxProductions = 1
    MaxRuns = 2
SPECIFICATION PlatformSpec
CHECK_DEADLOCK FALSE
INVARIANTS
    PlatformTypeOK
    IdentityHolds
    VoiceHolds
    FailSafeHolds
    EnforcementHolds
    CommercialHolds
    DefenseHolds
    DevicesHold
    TutorHolds
    CouncilHolds
    GatewayStands
    ReviewsHold
