SPECIFICATION ServingSpec
CONSTANTS
    Runs = {r1, r2}
    Members = {m}
    Visitors = {v}
    Retained = 1
    Nodes = 2
    Workers = 1
    Remembering = {r1}
    Solo = {r1}
    Parallel = {r2}
    Diagnostic = {}
    MaxDeltas = 1
    MaxStreams = 1
    MaxUpsets = 1
    Subordinates = {s1, s2}
    MaxToolRounds = 2
    FlushPieces = 2
    MaxBatch = 2
    MaxSaid = 4
    Tabs = {c1, c2}
    Sessions = {w1, w2}
    LinkCap = 2
    MaxTurn = 3
    LastDay = 2
    MaxChatFaults = 1
    ChunkSizes = {12, 15}
    Lengths = {2, 7, 16}
    MaxLines = 4
    MaxDepth = 3
    HeaderLength = 4
    Threshold = 2
    MaxDeliveries = 2
    MaxFaults = 2
    MaxNotices = 1
INVARIANTS
    ServingTypeOK ViewerSeesTheLog PreviewIsWhole NothingAfterRevocation 
    PreviewIsAnswer PartialReplyIsNotKept TurnIsMetered
    TranscriptAlternates TurnsAreCharged OpenTurnIsServed
    ChunksHoldTheDocument AlertsMatchEpisodes
PROPERTY ImplementsFeed
VIEW ServingView
CHECK_DEADLOCK FALSE
