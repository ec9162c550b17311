SPECIFICATION PlatformSpec
CONSTANTS
    Uploads <- TwoUploads
    Scans = {"scan"}
    MaxJobs = 3
    MaxMishaps = 1
    MemoryRuns = {m1, m2}
    Orgs = {"A", "B"}
    Facts = {"f", "g"}
    TopK = 1
    MaxEpisodes = 1
    MaxAccounts = 2
    MaxMemories = 4
    MaxErasures = 2
    MaxSlips = 1
    Changes = {q1, q2}
    Designs <- TwoDesigns
    MaxChanges = 2
    MaxDrafts = 1
    Attempts = {a1, a2}
    UserLimit = 1
    AddressLimit = 2
    Window = 2
    TokenLife = 1
    MaxTime = 2
    MaxStamps = 3
    MaxTries = 2
    Uids = {u1}
    MaxRuns = 4
    MissThreshold = 2
    MaxMischances = 3
INVARIANTS
    PlatformTypeOK GenerationsAreWhole CacheFollowsLive AuditResolves DeletedStaysDeleted RecallIsOwn
    PublishedTeamBuilds VisitorsReadNoMail SessionsFollowThePassword GuessesAreBounded
    SentMailIsNotRedrafted SentIsNotHandled
VIEW PlatformView
CHECK_DEADLOCK FALSE
