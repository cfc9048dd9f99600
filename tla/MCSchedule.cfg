\* Three targets of two domains with any servers, one failure of a server that
\* is not broken or of the database, and one reload or restart.
SPECIFICATION ScheduleFairSpec
CONSTANTS
    t1 = t1
    t2 = t2
    t3 = t3
    d1 = d1
    d2 = d2
    Targets = {t1, t2, t3}
    Domains = {d1, d2}
    DomainOf <- MCDomainOf
    Rank <- MCRank
    IdlePause = 2
    Accelerated = 1
    ErrorPause = 1
    Hour = 2
    Base = 1
    MaxBackoff = 2
    RetryAfters = {4}
    Cooldown = 5
    Day = 2
    FullBudget = 1
    MaxFaults = 1
    MaxRestarts = 1
    None = None
INVARIANTS
    RetryAfterIsHonoured
PROPERTIES
    TurnComes
