SPECIFICATION Spec
CONSTANTS
    NumVB = 2
    MaxManifest = 2
    MaxCalls = 3
PROPERTIES
    SuccessMeansApplied
    RollbackReportTruthful
CHECK_DEADLOCK FALSE
