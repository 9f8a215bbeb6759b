CONSTANTS
    None = None
    j1 = j1
    Job = {j1}
    JobsOf <- MCJobsOf
    MaxVersion = 3
    MaxRuns = 1
SPECIFICATION SystemSpec
INVARIANTS SystemTypeOK JobsAreCurrent CacheLag ReloadReachesAll
 
\* The process may have ended.
CHECK_DEADLOCK FALSE
