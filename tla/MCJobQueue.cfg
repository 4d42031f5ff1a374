SPECIFICATION FairSpec
CONSTANTS
    j1 = j1
    j2 = j2
    n1 = n1
    w1 = w1
    w2 = w2
    Jobs = {j1, j2}
    NoJob = NoJob
    max_retries <- MCmax_retries
    Contained = {j1, j2}
    Names = {n1}
    name <- MCname
    Workers = {w1, w2}
    NoWorker = NoWorker
    Slow = {w2}
    StaleSeconds = 2
    MaxAge = 3
    MaxCrashes = 1
INVARIANTS
    StartsInv
    StartsBounded
    OneWorker
    RunsApart
    FreshKept
    EndedClean
PROPERTIES
    ImplementsJobLife
    EndedStays
    CancelEnds
    OrphanTaken
