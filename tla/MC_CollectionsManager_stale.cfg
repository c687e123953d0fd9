SPECIFICATION Spec
CONSTANTS
    NumVB = 2
    MaxManifest = 2
    MaxCalls = 3
INVARIANT ActiveVBucketsOnCurrent
CHECK_DEADLOCK FALSE
