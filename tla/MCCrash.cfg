\* Two jobs of a user with a quota of one, a worker crash at any step.
SPECIFICATION Spec
CONSTANTS
    u1 = u1
    u2 = u2
    r1 = r1
    r2 = r2
    InitTimeout = 0
    TrainTimeout = 0
    MaxConcurrent = 1
    MaxDaily = 1
    MaxStep = 1
    MaxDay = 0
    NumJobs = 2
    Users = {u1}
    Owner <- OwnersSame
    ZipJobs = {2}
    CancelRequests = {}
    PasswordChangers = {u1}
    MaxCrashes = 2
INVARIANT TypeOK
INVARIANT TransitionsLegal
INVARIANT CompletedHasCheckpoint
INVARIANT EveryStartCharged
INVARIANT TrainedDirsGo
INVARIANT NeverOvercharged
CHECK_DEADLOCK FALSE
