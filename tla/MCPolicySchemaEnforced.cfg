SPECIFICATION Spec
CONSTANTS
    NULL = NULL
    Absolute = {"/a", "/b"}
    Slashed = {"/a", "/b"}
    EPERM = 1
    Documents <- MCSchemaDocuments
INVARIANTS
    SchemaEnforced
