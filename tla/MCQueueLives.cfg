\* Two jobs in the queue of a user with a quota of one, across midnight; no crash.
SPECIFICATION FairSpec
CONSTANTS
    u1 = u1
    u2 = u2
    r1 = r1
    r2 = r2
    InitTimeout = 1
    TrainTimeout = 0
    MaxConcurrent = 2
    MaxDaily = 1
    MaxStep = 1
    MaxDay = 1
    NumJobs = 2
    Users = {u1}
    Owner <- OwnersSame
    ZipJobs = {2}
    CancelRequests = {}
    PasswordChangers = {}
    MaxCrashes = 0
PROPERTY EveryJobEnds
PROPERTY DayCountedRight
CHECK_DEADLOCK FALSE
