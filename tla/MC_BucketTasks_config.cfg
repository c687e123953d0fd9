\* The constants of MC_BucketTasks.cfg.
CONSTANTS
    StimeValues = {1, 2}
    AlogSleepValues = {0, 1}
    MaxIds = 8
SPECIFICATION Spec
INVARIANT ScannerFollowsConfiguration
CHECK_DEADLOCK FALSE
