\* engine_testapp with two test cases, attempts from atoi being 0, 1 or 3,
\* and the mock engine's blocking calls.  The program exits after the
\* last test, and a test may hang on a leaked cookie mutex, so the system
\* may stop.
CONSTANTS
    MaxCalls = 2
    MaxBlocks = 1
    NumTests = 2
    AttemptValues = {0, 1, 3}
SPECIFICATION TestAppSpec
INVARIANT TestAppTypeOK
CHECK_DEADLOCK FALSE
