SPECIFICATION Spec
CONSTANTS
    local = local
    remote = remote
    Ids <- MCIds
    Loopback <- MCLoopback
    requireTrustedClients = TRUE
    autoTrustLoopbackClients = TRUE
    Settings <- MCBeside
    NoId = NoId
    MaxStarts = 2
INVARIANTS AnswersKept
CHECK_DEADLOCK FALSE
