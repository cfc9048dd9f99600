\* One job of three blocks, with a checksum, over what may lie at its place
\* already, through one reload or restart and two faults; and a second job with
\* its URL, as MCOneTrouble says.
SPECIFICATION FairSpec
CONSTANTS
    j1 = j1
    j2 = j2
    u1 = u1
    p1 = p1
    p2 = p2
    Jobs <- TwoJobs
    Urls <- OneUrl
    Paths <- TwoPaths
    UrlOf <- SameUrl
    PathOf <- OwnPaths
    Uploaded <- OnePath
    Checked <- FirstChecked
    FileLength = 3
    Limit = 2
    MaxThreads = 2
    MaxFaults = 2
    None = None
    Foreign = Foreign
CONSTRAINT
    MCOneTrouble
INVARIANTS
    InProgressAccountedFor
    BlocksInPlace
    VerifiedIsWhole
PROPERTIES
    EveryJobSettles
CHECK_DEADLOCK FALSE
