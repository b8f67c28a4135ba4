SPECIFICATION FairSenderSpec
CONSTANTS
    Argvs <- MCArgvs
    Limits <- MCLimits
    Modulus = 1000000
    FileLengths = {0, 1, 2}
    Addresses = 2
    Served = {1}
    PrefixLength = 2
    MaxConnections = 2
    MaxFrames = 2
INVARIANTS SendsAsAsked
PROPERTIES ProducerSpec StopsWhenAsked DeliversItsCount
CHECK_DEADLOCK FALSE
