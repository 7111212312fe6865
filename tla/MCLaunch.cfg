CONSTANTS
    Policies <- MCPolicies
    ExitCodes <- MCExitCodes
SPECIFICATION Spec
INVARIANTS
    TypeOK
    Confined
    NothingLeft
    SuccessIsReal
    OneListener
PROPERTIES
    RunReturns
    CallAnswered
