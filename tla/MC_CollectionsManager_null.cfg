SPECIFICATION Spec
CONSTANTS
    NumVB = 2
    MaxManifest = 2
    MaxCalls = 3
INVARIANT NoNullManifestDereference
CHECK_DEADLOCK FALSE
