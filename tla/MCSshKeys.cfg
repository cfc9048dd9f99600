SPECIFICATION SshSpec
CONSTANTS
    TypeOrder <- MCTypeOrder
    Ids = {"x", "y"}
    Documents <- MCDocuments
    MaxLines = 2
    Sessions = {s}
    Admins = {a}
    HostTypes <- MCHostTypes
    AsyncSSH = TRUE
    MaxMade = 4
    MaxFailures = 1
INVARIANTS SshTypeOK KeysAreOneUpdate
PROPERTIES HostKeysStable
CHECK_DEADLOCK FALSE
CONSTRAINT MCOneTable
