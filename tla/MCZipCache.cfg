\* Three requests of two providers for the two members of one archive, which
\* may be oversize for either.
SPECIFICATION FairSpec
CONSTANTS
    r1 = r1
    r2 = r2
    r3 = r3
    a1 = a1
    None = None
    Whole = Whole
    Torn = Torn
    Requests <- ThreeRequests
    Archives <- OneArchive
    Size = 2
    MaxProviders = 2
CONSTRAINT MCUpToNames
INVARIANTS
    OneWholeZipJobUnlessFallback
    TornFilesAccountedFor
PROPERTY
    LockComesFree
\* Every request ends: there is nothing left to do.
CHECK_DEADLOCK FALSE
