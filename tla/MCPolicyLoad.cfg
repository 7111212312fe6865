CONSTANTS
    t1 = t1
    t2 = t2
    NoText = NoText
    Texts = {t1, t2}
    KnownActions = {t1}
    Policies <- MCPolicies
    WireVersion = 16
    Versions = {15, 16}
    Half = 4
    Ports = 3
    MaxErrno = 2
    MaxSyscall = 5
    PipeCap = 38
SPECIFICATION Spec
INVARIANTS
    TypeOK
    FaithfulLoad
    AllOrNothing
    NothingLeft
CHECK_DEADLOCK FALSE
