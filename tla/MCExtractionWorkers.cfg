SPECIFICATION FairSpec
CONSTANTS
    Worker = {w1, w2}
    MaxAttempts = 3
    MaxRetries = 3
    MaxGenerations = 1
    MaxCopies = 1
    MaxCrashes = 1
    MaxKills = 1
CHECK_DEADLOCK FALSE
PROPERTIES
    RequestKeepsPromise
    WorkersAgree
    Settles
