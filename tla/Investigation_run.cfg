SPECIFICATION FairSpec
CHECK_DEADLOCK FALSE
CONSTANTS
    Sources <- MCSources
    UpstreamOf <- MCUpstreamOf
    Catalogue <- MCCatalogue
    Capabilities <- MCCapabilities
    OtherRequests <- MCOtherRequests
    MaxBuilds = 2
    MaxReceipts = 1
    MaxFaults = 1
    RouteCount = 2
    AllowedTools <- MCCatalogue
    OtherTools = {"shell"}
    EvidenceTools = {"evidence.search"}
    Proposals <- MCProposals
    MaxRounds = 3
    MaxToolCalls = 2
    MaxProviderFailures = 1
    MaxTotalTokens = 4
    AnswerTokens <- MCTokens
INVARIANTS SuccessIsOneCut EveryCallIsRecorded AcceptedValidates AcceptedReplays
PROPERTY EveryRunEnds
