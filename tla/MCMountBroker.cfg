CONSTANTS
    p1 = p1
    p2 = p2
    data = data
    roTarget = roTarget
    rwTarget = rwTarget
    scratch = scratch
    cache = cache
    Procs = {p1, p2}
    Fds = {3, 4}
    Paths <- MCPaths
    BindRules <- MCBindRules
    TmpfsPaths = {scratch}
    ObjectRules <- MCObjectRules
    Attrs = {"rdonly"}
    AddFd <- MCAddFd
    MaxGrants = 2
    MaxTokens = 1
    MaxMounts = 2
    MaxReuse = 1
SPECIFICATION Spec
SYMMETRY MCSymmetry
INVARIANTS
    TypeOK
    DeclaredTargets
    PairsDeclared
    OneMovePerGrant
    ReadOnlyMounts
