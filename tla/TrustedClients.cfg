SPECIFICATION Spec
CONSTANTS
    local = local
    remote = remote
    Ids <- MCIds
    Loopback <- MCLoopback
    requireTrustedClients = TRUE
    autoTrustLoopbackClients = TRUE
    Settings <- MCSettings
    NoId = NoId
    MaxStarts = 2
INVARIANTS DecisionsFollowRequests AnswersKeptAlone
CHECK_DEADLOCK FALSE
