\* Two HTTP downloads compete for one slot, beside one rclone download.
SPECIFICATION FetchFairSpec
CONSTANTS
    d1 = d1
    d2 = d2
    d3 = d3
    Downloads <- Calls
    ViaRclone <- RcloneCalls
    RemoteLength = 2
    MaxErrorBody = 2
    MaxConcurrent = 1
    MaxRetries = 2
INVARIANTS
    ResumeKeepsPlaces
PROPERTIES
    PoolSpec
    EveryDownloadEnds
\* Every call ends: there is nothing left to do.
CHECK_DEADLOCK FALSE
