\* Four datasets, one larger than the cache; a crash, a failed download and a failed removal.
SPECIFICATION Spec
CONSTANTS
    NoRepo = none
    a = a
    b = b
    c = c
    d = d
    Repos = {a, b, c, d}
    Size <- SmallSizes
    MaxBytes = 4
    MaxFetches = 5
    MaxFailures = 1
    MaxCrashes = 1
    MaxErrors = 1
INVARIANT TypeOK
INVARIANT DatasetReady
INVARIANT CapRespected
CHECK_DEADLOCK FALSE
