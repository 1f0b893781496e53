CONSTANTS
    NumJobs = 3
    job_queue <- Queue
    MAX_PARALLEL = 2
    MaxRestarts = 1
SPECIFICATION FairSpec
INVARIANTS PoolConserved RowsSound NoneForgotten
PROPERTIES ScriptEnds
