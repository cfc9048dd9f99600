\* One target and four listings, of which the second links to a path twice and
\* the third is too large, with two reloads or restarts and two failed fetches or
\* disturbed records.
SPECIFICATION FairSpec
CONSTANTS
    Missing = Missing
    Targets = {t1}
    MaxVersion = 4
    Doubled <- Second
    Giant <- Third
    MinFull = 1
    MaxFull = 2
    FullBudget = 1
    CheapBudget = 1
    MaxIndexers = 3
    MaxFaults = 2
INVARIANTS
    SeenChangeIsMarked
    BudgetPerIndexer
PROPERTIES
    PlainListingsCatchUp
