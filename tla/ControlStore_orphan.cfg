SPECIFICATION Spec
CONSTANTS
    x1 = x1
    x2 = x2
    p1 = p1
    p2 = p2
    alice = alice
    bob = bob
    carol = carol
    dave = dave
    r1 = r1
    r2 = r2
    r3 = r3
    None = None
    Origin = Origin
    Executors = {x1, x2}
    Plans = {p1}
    Approvers = {alice}
    Nonces = {n1}
    Ledgers = {l1}
    Requests = {r1, r2}
    Horizon = 0
    GroupOf <- Alone
    Requester <- ByNobody
    RequestedAt <- FromStart
    ExpiresAt <- NeverExpires
    Required <- OneApproval
    ExecutedAt <- AtStart
    HighRisk = {}
    Denied = {}
    TokenTtl = 1
    SelfApproval = FALSE
    DistinctGroups = TRUE
    MaxTokens = 4
    MaxFaults = 1
SYMMETRY Symmetry
INVARIANTS
    ValidWhenUnlocked
CHECK_DEADLOCK FALSE
