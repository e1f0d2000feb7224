SPECIFICATION FairSpec
CONSTANTS
    x1 = x1
    x2 = x2
    p1 = p1
    p2 = p2
    alice = alice
    bob = bob
    carol = carol
    dave = dave
    r1 = r1
    r2 = r2
    r3 = r3
    None = None
    Origin = Origin
    Executors = {x1, x2}
    Plans = {p1}
    Approvers = {alice, bob, carol, dave}
    Nonces = {n1}
    Ledgers = {l1}
    Requests = {r2, r3}
    Horizon = 3
    GroupOf <- Teams
    Requester <- ByAlice
    RequestedAt <- FromOne
    ExpiresAt <- UntilThree
    Required <- TwoApprovals
    ExecutedAt <- Spread
    HighRisk = {p1}
    Denied = {}
    TokenTtl = 1
    SelfApproval = FALSE
    DistinctGroups = TRUE
    MaxTokens = 1
    MaxFaults = 0
PROPERTIES
    EveryInvocationEnds
INVARIANTS
    CommittedWasAuthorised
CHECK_DEADLOCK FALSE
