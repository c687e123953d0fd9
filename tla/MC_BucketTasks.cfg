\* Two exp_pager_stime values, alog_sleep_time 0 or 1 minute, and enough
\* task ids for every listener call to reschedule at least twice.
CONSTANTS
    StimeValues = {1, 2}
    AlogSleepValues = {0, 1}
    MaxIds = 8
SPECIFICATION Spec
INVARIANTS
    TypeOK
    ExpiryPagerMatchesSettings
    AccessScannerMatchesSettings
\* The bucket is destroyed after deinitialize: nothing runs after it.
CHECK_DEADLOCK FALSE
