CONSTANTS
    None = None
    j1 = j1
    Job = {j1}
    JobsOf <- MCJobsOf
    MaxVersion = 1
    MaxRuns = 1
SPECIFICATION SystemFairSpec
PROPERTIES ParallelReloadEnds ShutdownEnds
\* The process may have ended.
CHECK_DEADLOCK FALSE
