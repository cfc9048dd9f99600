SPECIFICATION Spec
CONSTANTS
    Names = {"a", "b"}
    Paths <- MCPaths
    Targets <- MCTargets
    Users = {"writer", "plain", "reader"}
    Requests = {r1, r2}
    Shares <- MCShares
    Policy <- MCPolicy
    Rows <- MCRows
    Listings <- MCListings
INVARIANTS TypeOK ListingAgrees BlockedOnlyByConflict
PROPERTIES ProtectedOnlyFills
CHECK_DEADLOCK FALSE
SYMMETRY MCSymmetry
