\* The sweep fails a job whose container runs on.
SPECIFICATION Spec
CONSTANTS
    u1 = u1
    u2 = u2
    r1 = r1
    r2 = r2
    InitTimeout = 0
    TrainTimeout = 0
    MaxConcurrent = 1
    MaxDaily = 2
    MaxStep = 1
    MaxDay = 0
    NumJobs = 2
    Users = {u1, u2}
    Owner <- OwnersDiffer
    ZipJobs = {2}
    CancelRequests = {}
    PasswordChangers = {}
    MaxCrashes = 0
INVARIANT AtMostOneContainer
CHECK_DEADLOCK FALSE
