CONSTANTS
    f1 = f1
    f2 = f2
    f3 = f3
    good1 = good1
    good2 = good2
    bad = bad
    None = None
    Files <- MCFiles
    Contents <- MCContents
    Valid <- MCValid
    MaxEntries = 2
    MaxEdits = 3
    MaxRequests = 5
SPECIFICATION Spec
SYMMETRY Interchangeable
INVARIANTS
    TypeOK
    Accounting
    UniqueNames
PROPERTIES
    Transparent
CHECK_DEADLOCK FALSE
