SPECIFICATION FairSenderSpec
CONSTANTS
    Argvs <- OneFrame
    Limits <- MCLimits
    Modulus = 1000000
    FileLengths = {1}
    Addresses = 1
    Served = {1}
    PrefixLength = 2
    MaxConnections = 2
    MaxFrames = 2
PROPERTIES DeliversThroughResets
CHECK_DEADLOCK FALSE
