\* An eviction cut short by a crash.
SPECIFICATION Spec
CONSTANTS
    NoRepo = none
    a = a
    b = b
    c = c
    d = d
    Repos = {a, b, c}
    Size <- SmallSizes
    MaxBytes = 4
    MaxFetches = 4
    MaxFailures = 0
    MaxCrashes = 1
    MaxErrors = 0
INVARIANT DatasetAvailable
CHECK_DEADLOCK FALSE
