CONSTANTS
    d1 = d1
    d2 = d2
    q1 = q1
    q2 = q2
    g1 = g1
    g2 = g2
    Unknown = Unknown
    Blank = Blank
    NoPool = NoPool
    GroupName = {g1, g2, Blank}
    MaxValues = 2
    Files <- MCFiles
    Urls <- MCUrls
    Builds <- MCBuilds
SPECIFICATION RequestSpec
INVARIANTS WorkersFitPool GroupsAreExact LoadedIsUsable ValidIsConnected EachPairOnce RejectedForReason
\* A request ends, and so does loading.
CHECK_DEADLOCK FALSE
