\* Two accounts in one tab, two fetches in flight.
SPECIFICATION Spec
CONSTANTS
    MaxAccounts = 2
    MaxTokens = 2
    MaxJobs = 1
    MaxCancels = 1
    MaxFailures = 1
    Fetches = {1, 2}
INVARIANT TypeOK
INVARIANT ShownIsOwn
INVARIANT ShownSettled
PROPERTY SessionKept
