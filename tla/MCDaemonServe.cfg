SPECIFICATION Spec
CONSTANTS
    c1 = c1
    c2 = c2
    Clients <- MCClients
    NDaemons = 2
    None = None
    Asking <- MCAsking
    Environments <- MCEnvironments
    MaxArgs = 2
    MaxPolicyLen = 2
    MaxArgLen = 5
    MaxBytes = 7
    Word = 1
    Wrap = 16
    Backlog = 1
INVARIANTS
    TypeOK
    Delivered
    LimitsAgree
    OnlyLeaversHurt
    Reachable
PROPERTIES
    ClientReturns
CHECK_DEADLOCK FALSE
