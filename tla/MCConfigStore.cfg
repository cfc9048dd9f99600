\* Two administrators with two requests between them, and one fault.
SPECIFICATION ConfigSpec
CONSTANTS
    e1 = e1
    e2 = e2
    u = u
    v = v
    NoUrl = NoUrl
    Editors = {e1, e2}
    Links <- MCLinks
    FolderOf <- MCFolderOf
    Urls = {u, v}
    FirstLinks <- MCFirstLinks
    Imports <- MCImports
    Parts = {"shares", "limits", "paths"}
    Single = {"limits"}
    Keeping = {"shares"}
    FirstTables <- MCFirstTables
    Payloads <- MCPayloads
    Rank <- MCRank
    Given = {TRUE, FALSE}
    Skipped = {"datadir_1"}
    Kept = {"x"}
    MaxRequests = 2
    MaxFaults = 1
INVARIANTS
    ConfigTypeOK
    AcknowledgedIsStored
    UpdatesStick
CHECK_DEADLOCK FALSE
