SPECIFICATION Spec
CONSTANTS
    Users = {"admin", "dav"}
    Imported <- MCImported
    Threads = {t1, t2}
    AutoCreate = TRUE
    MaxTokens = 2
    MaxStarts = 2
    MaxUpsets = 1
SYMMETRY MCSymmetry
INVARIANTS OneSessionPerUser RejectedForAReason ExpiredIsOut
CHECK_DEADLOCK FALSE
