\* One job; a report every four steps or two time units.
SPECIFICATION Spec
CONSTANTS
    InitTimeout = 5
    TrainTimeout = 4
    SweepEvery = 2
    TotalSteps = 8
    Reports = 2
    WriteEvery = 2
    MaxFetch = 5
    MaxStep = 1
    MaxSave = 1
    MaxUpload = 2
    MaxGap = 1
INVARIANT TypeOK
INVARIANT HealthySurvives
INVARIANT QuietEndsSoon
INVARIANT CancelEndsSoon
