\* One job of an uploaded zip; nothing crashes and nobody cancels.
SPECIFICATION FairSpec
CONSTANTS
    u1 = u1
    u2 = u2
    r1 = r1
    r2 = r2
    InitTimeout = 1
    TrainTimeout = 0
    MaxConcurrent = 1
    MaxDaily = 2
    MaxStep = 1
    MaxDay = 0
    NumJobs = 1
    Users = {u1}
    Owner <- OwnersDiffer
    ZipJobs = {1}
    CancelRequests = {}
    PasswordChangers = {}
    MaxCrashes = 0
PROPERTY EveryDirGoes
CHECK_DEADLOCK FALSE
