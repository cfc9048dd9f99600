\* Three requests for one file, in any mix of GET, PUT and DELETE.
SPECIFICATION Spec
CONSTANTS
    f1 = f1
    r1 = r1
    r2 = r2
    r3 = r3
    None = None
    Files <- OneFile
    Requests <- ThreeRequests
    NumBlocks = 2
INVARIANTS
    CleanFill
    CleanReads
    StagingAccountedFor
    UploadDisplacedOnlyByOlderMiss
SYMMETRY AnyRequest
\* Every request ends: there is nothing left to do.
CHECK_DEADLOCK FALSE
