\* Two submissions of one upload or one repository, both of which may be
\* replaced, and a day.
SPECIFICATION Spec
CONSTANTS
    MaxFiles = 3
    MaxFile = 2
    MaxTotal = 5
    NoObject = NoObject
    c1 = c1
    c2 = c2
    Archives <- SomeArchives
    Repos <- SomeRepos
    Confirms = {c1, c2}
    MaxPuts = 2
    MaxPushes = 2
    MaxDays = 1
INVARIANT TypeOK
INVARIANT DatasetFitsJob
PROPERTY RejectedIsUnsuitable
CHECK_DEADLOCK FALSE
