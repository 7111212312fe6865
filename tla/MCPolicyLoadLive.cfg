CONSTANTS
    t1 = t1
    t2 = t2
    NoText = NoText
    Texts = {t1, t2}
    KnownActions = {t1}
    Policies <- MCLivePolicies
    WireVersion = 16
    Versions = {15, 16}
    Half = 4
    Ports = 3
    MaxErrno = 2
    MaxSyscall = 5
    PipeCap = 24
SPECIFICATION FairSpec
PROPERTIES
    LoadReturns
CHECK_DEADLOCK FALSE
