CONSTANTS
    None = None
    Task = {t1, t2, j1}
    Scheduled = {j1}
    Patient = {t2}
    StdWorker = {w1}
    BgWorker = {b1}
    QueueSize = 1
SPECIFICATION FairSpec
INVARIANTS TypeOK OnePlace ReplyHasRoom PoolIsolation QueryIsWatched ExitIsQuiet
PROPERTIES ImplementsService TasksAreServed StopEnds
\* A stopped collector takes no more steps.
CHECK_DEADLOCK FALSE
